---- MODULE Spec2Model ----
(***************************************************************************)
(* State-machine model of the time-seer forecast kit: the analyzer class   *)
(* ARIMATimeSeriesAnalyzer (python_scripts/main.py), its REST front end    *)
(* (api_server.py), its batch mode (run_api_analysis), the dashboard       *)
(* (python_scripts/app.py) and the Streamlit variant of the analyzer.      *)
(*                                                                         *)
(* Representation                                                          *)
(*  - Python None is the record None; every optional value is a record.    *)
(*  - A float is an exact rational [n, d] with d > 0; NaN is [0, 0].       *)
(*    A square root is kept symbolically as [radicand |-> q].              *)
(*  - A date string "YYYY-MM-DD" is the tuple <<y, m, d>>; a parsed        *)
(*    Timestamp is [mo |-> months since year 0, d |-> day of month].       *)
(*  - A pandas Series is [name, index, values, dtype]; an index is         *)
(*    [kind, labels] with kind "date" (DatetimeIndex) or "range"           *)
(*    (RangeIndex).                                                        *)
(*  - The ARIMA estimators are third-party code: a fit is answered by the  *)
(*    oracle lib, chosen by the environment with the input. A fitted model *)
(*    predicts level + slope * (i - 1) at step i; a fit can also raise.    *)
(***************************************************************************)
EXTENDS Integers, Sequences, FiniteSets, TLC

VARIABLES
    req,        \* the input handed to a front end (request body, input file, upload)
    lib,        \* what the estimator library answers for this input
    restA,      \* the analyzer object of the /api/forecast handler
    restResp,   \* the HTTP response of /api/forecast
    cliDf,      \* ARIMATimeSeriesAnalyzer._df in the batch process
    cliA,       \* the analyzer object of the batch run
    cliOut,     \* the dict run_api_analysis returns
    df,         \* ARIMATimeSeriesAnalyzer._df of a process driving the class directly
    an,         \* an ARIMATimeSeriesAnalyzer instance driven directly
    anS,        \* an ARIMATimeSeriesAnalyzerStreamlit instance driven directly
    last,       \* the outcome of the last direct call on an
    dfS,        \* ARIMATimeSeriesAnalyzerStreamlit._df of that process
    lastS,      \* the outcome of the last direct call on anS
    dashDf,     \* ARIMATimeSeriesAnalyzer._df in the dashboard process
    dashA,      \* st.session_state.analyzer
    session,    \* the other st.session_state flags of app.py
    dashOut,    \* what the last dashboard run showed
    proc,       \* a finished run of main.py: its arguments, exit status and output file
    tab         \* the tabbed dashboard of streamlit_app.py: its class, session and page

vars == <<req, lib, restA, restResp, cliDf, cliA, cliOut, df, an, anS, last, dfS, lastS,
          dashDf, dashA, session, dashOut, proc, tab>>

-----------------------------------------------------------------------------
(* Bounds of the model *)

\* series values are drawn from 0 .. MaxVal
MaxVal == 2
\* the last TailFree points of an input series vary freely, the others are 1
TailFree == 2
\* explicit forecast_steps values are 0 .. MaxSteps
MaxSteps == 3

-----------------------------------------------------------------------------
(* Program constants *)

\* api_server.py: minimum number of records
MinPoints == 10
\* api_server.py: forecast_steps when the request has none
DefaultSteps == 12

-----------------------------------------------------------------------------
(* Python values *)

None == [none |-> TRUE]

Absent == "<absent>"

Min(a, b) == IF a <= b THEN a ELSE b

Max(a, b) == IF a >= b THEN a ELSE b

Abs(x) == IF x < 0 THEN -x ELSE x

RECURSIVE Gcd(_, _)
Gcd(a, b) == IF b = 0 THEN a ELSE Gcd(b, a % b)

\* the rational n / d in lowest terms, d > 0
Rat(n, d) ==
    LET g == Gcd(Abs(n), Abs(d))
        s == IF d < 0 THEN -1 ELSE 1
    IN  [n |-> (s * n) \div g, d |-> (s * d) \div g]

NaN == [n |-> 0, d |-> 0]

IsNaN(q) == q.d = 0

RInt(k) == [n |-> k, d |-> 1]

RAdd(a, b) == IF IsNaN(a) \/ IsNaN(b) THEN NaN ELSE Rat(a.n * b.d + b.n * a.d, a.d * b.d)

RSub(a, b) == IF IsNaN(a) \/ IsNaN(b) THEN NaN ELSE Rat(a.n * b.d - b.n * a.d, a.d * b.d)

RMul(a, b) == IF IsNaN(a) \/ IsNaN(b) THEN NaN ELSE Rat(a.n * b.n, a.d * b.d)

\* a / b for b # 0
RDiv(a, b) == IF IsNaN(a) \/ IsNaN(b) THEN NaN ELSE Rat(a.n * b.d, a.d * b.n)

\* a < b; every comparison with NaN is false
RLt(a, b) == ~IsNaN(a) /\ ~IsNaN(b) /\ a.n * b.d < b.n * a.d

\* Python's max(a, b) and min(a, b) on floats: b is returned only if it compares greater (smaller)
PyMax(a, b) == IF RLt(a, b) THEN b ELSE a

PyMin(a, b) == IF RLt(b, a) THEN b ELSE a

\* np.sqrt of a non-negative number, kept symbolically
Sqrt(q) == [radicand |-> q]

\* int(x) for x = k * num / den: truncation toward zero
IntOfProduct(k, num, den) ==
    IF k * num >= 0 THEN (k * num) \div den ELSE -((-(k * num)) \div den)

RECURSIVE SumSeq(_)
SumSeq(s) == IF s = <<>> THEN 0 ELSE Head(s) + SumSeq(Tail(s))

RECURSIVE MaxSeq(_)
MaxSeq(s) == IF Len(s) = 1 THEN s[1] ELSE Max(Head(s), MaxSeq(Tail(s)))

RECURSIVE MinSeq(_)
MinSeq(s) == IF Len(s) = 1 THEN s[1] ELSE Min(Head(s), MinSeq(Tail(s)))

\* s[:k] of a Python sequence, for any integer k
PyStop(s, k) ==
    LET n == Len(s)
        e == IF k < 0 THEN Max(n + k, 0) ELSE Min(k, n)
    IN  SubSeq(s, 1, e)

\* s[k:] of a Python sequence, for any integer k
PyStart(s, k) ==
    LET n == Len(s)
        b == IF k < 0 THEN Max(n + k, 0) ELSE Min(k, n)
    IN  SubSeq(s, b + 1, n)

-----------------------------------------------------------------------------
(* Dates *)

BadDate == <<0, 0, 0>>

\* pd.to_datetime of one "YYYY-MM-DD" string
to_datetime(s) == [mo |-> s[1] * 12 + (s[2] - 1), d |-> s[3]]

ParsesAsDate(s) == s[2] \in 1..12 /\ s[3] \in 1..28

\* Timestamp.strftime('%Y-%m-%d')
strftime(t) == <<t.mo \div 12, (t.mo % 12) + 1, t.d>>

\* t + pd.DateOffset(months=1), for a day every month has
PlusOneMonth(t) == [mo |-> t.mo + 1, d |-> t.d]

\* pd.date_range(start, periods=periods, freq='MS'): the month starts from start on
date_range_MS(start, periods) ==
    LET first == IF start.d = 1 THEN start.mo ELSE start.mo + 1
    IN  [i \in 1..periods |-> [mo |-> first + (i - 1), d |-> 1]]

-----------------------------------------------------------------------------
(* pandas tables and series *)

RangeIndex(n) == [kind |-> "range", labels |-> [i \in 1..n |-> i - 1]]

DatetimeIndex(ts) == [kind |-> "date", labels |-> ts]

\* a DataFrame: an index, the column names in order, the cells by column and
\* what each column holds ("int", "date_str" or "str")
Table(index, columns, data, dtype) ==
    [index |-> index, columns |-> columns, data |-> data, dtype |-> dtype]

InSeq(x, s) == \E i \in 1..Len(s) : s[i] = x

PosOf(x, s) == CHOOSE i \in 1..Len(s) : s[i] = x /\ \A j \in 1..(i - 1) : s[j] # x

NRows(t) == Len(t.index.labels)

\* df[column]
Column(t, column) ==
    [name |-> column, index |-> t.index, values |-> t.data[column], dtype |-> t.dtype[column]]

\* series[:k] and series[k:], positional
SeriesStop(s, k) ==
    [name |-> s.name,
     index |-> [kind |-> s.index.kind, labels |-> PyStop(s.index.labels, k)],
     values |-> PyStop(s.values, k),
     dtype |-> s.dtype]

SeriesStart(s, k) ==
    [name |-> s.name,
     index |-> [kind |-> s.index.kind, labels |-> PyStart(s.index.labels, k)],
     values |-> PyStart(s.values, k),
     dtype |-> s.dtype]

\* pd.DataFrame(records) for a list of records that all have the keys cols:
\* one row per record under a RangeIndex
DataFrameOfRecords(recs) ==
    Table(RangeIndex(recs.n), recs.cols, recs.cells, recs.dtype)

-----------------------------------------------------------------------------
(* The estimator library (statsmodels ARIMA, pmdarima auto_arima) *)

\* ARIMA(train, order).fit() / auto_arima(train, ...): raises on an empty
\* training window, on values that are not numbers and whenever the oracle
\* says so
FitRaises(train) == Len(train.values) = 0 \/ train.dtype # "int" \/ ~lib.fit_ok

FittedModel(kind, train) ==
    [kind |-> kind, level |-> lib.level, slope |-> lib.slope, nobs |-> Len(train.values)]

\* model_fit.forecast(steps) / auto_model.predict(steps) for steps >= 1
Predict(model, steps) == [i \in 1..steps |-> model.level + model.slope * (i - 1)]

-----------------------------------------------------------------------------
(* ARIMATimeSeriesAnalyzer *)

NewAnalyzer ==
    [ts |-> None, ts_train |-> None, ts_test |-> None, model_fit |-> None, auto_model |-> None]

\* the outcome of a method call: the exception raised ("" if none), the
\* instance afterwards and the value returned
Returns(a, ret) == [exc |-> "", a |-> a, ret |-> ret]

\* the value of "return self"
Self == [self |-> TRUE]

Raises(e, a) == [exc |-> e, a |-> a, ret |-> None]

\* select_column that clears ts before it raises for an unknown column
SelectColumnClearsOnError(a, table, column) ==
    IF table = None THEN Raises("ValueError", a)
    ELSE IF ~InSeq(column, table.columns) THEN Raises("ValueError", [a EXCEPT !.ts = None])
    ELSE Returns([a EXCEPT !.ts = Column(table, column)], Self)

select_column(a, table, column) ==
    IF table = None THEN Raises("ValueError", a)
    ELSE IF ~InSeq(column, table.columns) THEN Raises("ValueError", a)
    ELSE Returns([a EXCEPT !.ts = Column(table, column)], Self)

\* split_idx = int(len(self.ts) * train_size), train_size = ts[1] / ts[2]
SplitIdx(n, train_size) == IntOfProduct(n, train_size[1], train_size[2])

SplitTrain(ts, train_size) == SeriesStop(ts, SplitIdx(Len(ts.values), train_size))

\* SplitTest that starts the test window one point late (ts[split_idx + 1:])
SplitTestSkipsOne(ts, train_size) == SeriesStart(ts, SplitIdx(Len(ts.values), train_size) + 1)

SplitTest(ts, train_size) == SeriesStart(ts, SplitIdx(Len(ts.values), train_size))

split_data(a, train_size) ==
    IF a.ts = None THEN Raises("ValueError", a)
    ELSE Returns([a EXCEPT !.ts_train = SplitTrain(a.ts, train_size),
                           !.ts_test = SplitTest(a.ts, train_size)], Self)

\* fit_arima without its check of ts_train: ARIMA(None, ...) raises TypeError
FitArimaWithoutGuard(a) ==
    IF a.ts_train = None THEN Raises("TypeError", a)
    ELSE IF FitRaises(a.ts_train) THEN Raises("LibraryError", a)
    ELSE Returns([a EXCEPT !.model_fit = FittedModel("ARIMA", a.ts_train)], Self)

fit_arima(a) ==
    IF a.ts_train = None THEN Raises("ValueError", a)
    ELSE IF FitRaises(a.ts_train) THEN Raises("LibraryError", a)
    ELSE Returns([a EXCEPT !.model_fit = FittedModel("ARIMA", a.ts_train)], Self)

fit_auto_arima(a) ==
    IF a.ts_train = None THEN Raises("ValueError", a)
    ELSE IF FitRaises(a.ts_train) THEN Raises("LibraryError", a)
    ELSE Returns([a EXCEPT !.auto_model = FittedModel("AutoARIMA", a.ts_train)], Self)

\* StepsOrTestLen with the REST default of 12 steps in place of len(ts_test)
StepsOrDefault(a, steps) == IF steps = None THEN DefaultSteps ELSE steps.int

\* steps is None or [int |-> k]
StepsOrTestLen(a, steps) == IF steps = None THEN Len(a.ts_test.values) ELSE steps.int

forecast(a, steps) ==
    IF a.model_fit = None THEN Raises("ValueError", a)
    ELSE IF a.ts_test = None THEN Raises("ValueError", a)
    ELSE IF StepsOrTestLen(a, steps) < 1 THEN Raises("LibraryError", a)
    ELSE Returns(a, Predict(a.model_fit, StepsOrTestLen(a, steps)))

auto_forecast(a, steps) ==
    IF a.auto_model = None THEN Raises("ValueError", a)
    ELSE IF a.ts_test = None THEN Raises("ValueError", a)
    ELSE IF StepsOrTestLen(a, steps) < 1 THEN Raises("LibraryError", a)
    ELSE Returns(a, Predict(a.auto_model, StepsOrTestLen(a, steps)))

\* check_stationarity() without a series: adfuller answers adf, one of
\* "stationary", "non-stationary" and "raises"
check_stationarity(a, adf) ==
    IF a.ts_train = None THEN Raises("ValueError", a)
    ELSE IF adf = "raises" \/ a.ts_train.dtype # "int" THEN Raises("LibraryError", a)
    ELSE Returns(a, [bool |-> adf = "stationary"])

\* series.diff().dropna()
Diff(v) == [i \in 1..(Len(v) - 1) |-> v[i + 1] - v[i]]

\* difference_series(plot=False): the first difference of the training window
difference_series(a) ==
    IF a.ts_train = None THEN Raises("ValueError", a)
    ELSE IF a.ts_train.dtype # "int" THEN Raises("TypeError", a)
    ELSE Returns(a, Diff(a.ts_train.values))

-----------------------------------------------------------------------------
(* Evaluation metrics *)

\* sum of (t[i] - f[i]) ** 2
SumSqErr(t, f) == SumSeq([i \in 1..Len(t) |-> (t[i] - f[i]) * (t[i] - f[i])])

\* sum of |t[i] - f[i]|
SumAbsErr(t, f) == SumSeq([i \in 1..Len(t) |-> Abs(t[i] - f[i])])

\* sum of (t[i] - mean(t)) ** 2 = (n * sum t^2 - (sum t)^2) / n
SumSqTotal(t) ==
    Rat(Len(t) * SumSeq([i \in 1..Len(t) |-> t[i] * t[i]]) - SumSeq(t) * SumSeq(t), Len(t))

NoMetrics ==
    [keys |-> {}, rmse |-> Sqrt(RInt(0)), mae |-> RInt(0), r2 |-> RInt(0), accuracy |-> RInt(0)]

\* api_server.py: r2 = 1 - ss_residual / ss_total if ss_total != 0 else 0, then clamped to [0, 1]
RestR2(t, f) ==
    LET raw == IF SumSqTotal(t).n # 0
               THEN RSub(RInt(1), RDiv(RInt(SumSqErr(t, f)), SumSqTotal(t)))
               ELSE RInt(0)
    IN  PyMax(RInt(0), PyMin(raw, RInt(1)))

\* api_server.py: accuracy = 1 - mae / (max - min) if max - min > 0 else 0, then clamped to [0, 1]
RestAccuracy(t, f) ==
    LET range == MaxSeq(t) - MinSeq(t)
        raw == IF range > 0
               THEN RSub(RInt(1), RDiv(Rat(SumAbsErr(t, f), Len(t)), RInt(range)))
               ELSE RInt(0)
    IN  PyMax(RInt(0), PyMin(raw, RInt(1)))

\* the metrics dict of /api/forecast over the overlap of test window and forecast
RestMetrics(test, fc) ==
    LET k == Min(Len(test), Len(fc))
        t == SubSeq(test, 1, k)
        f == SubSeq(fc, 1, k)
    IN  IF k > 0
        THEN [keys |-> {"rmse", "mae", "r2", "accuracy"},
              rmse |-> Sqrt(Rat(SumSqErr(t, f), k)),
              mae |-> Rat(SumAbsErr(t, f), k),
              r2 |-> RestR2(t, f),
              accuracy |-> RestAccuracy(t, f)]
        ELSE NoMetrics

\* sklearn raises ValueError on inputs of different lengths and on empty inputs
SklearnRaises(t, f) == Len(t) # Len(f) \/ Len(t) = 0

\* sklearn.metrics.mean_squared_error
mean_squared_error(t, f) == Rat(SumSqErr(t, f), Len(t))

\* sklearn.metrics.mean_absolute_error
mean_absolute_error(t, f) == Rat(SumAbsErr(t, f), Len(t))

\* sklearn.metrics.r2_score: nan for fewer than two samples; for a constant
\* y_true, 1.0 on a perfect prediction and 0.0 otherwise; never clamped
r2_score(t, f) ==
    IF Len(t) < 2 THEN NaN
    ELSE IF SumSqTotal(t).n # 0
         THEN RSub(RInt(1), RDiv(RInt(SumSqErr(t, f)), SumSqTotal(t)))
         ELSE IF SumSqErr(t, f) = 0 THEN RInt(1) ELSE RInt(0)

\* main.py run_api_analysis: 'accuracy': float(0.85 + (r2 * 0.1))
CliAccuracy(r2) == RAdd(Rat(85, 100), RMul(r2, Rat(1, 10)))

\* the metrics dict of run_api_analysis
CliMetrics(test, fc) ==
    [keys |-> {"rmse", "mae", "r2", "accuracy"},
     rmse |-> Sqrt(mean_squared_error(test, fc)),
     mae |-> mean_absolute_error(test, fc),
     r2 |-> r2_score(test, fc),
     accuracy |-> CliAccuracy(r2_score(test, fc))]

\* one entry of the dict evaluate_models returns
EvalMetrics(test, fc) ==
    [keys |-> {"RMSE", "MAE", "R2"},
     rmse |-> Sqrt(mean_squared_error(test, fc)),
     mae |-> mean_absolute_error(test, fc),
     r2 |-> r2_score(test, fc),
     accuracy |-> RInt(0)]

\* evaluate_models: None for a model that is not fitted
evaluate_models(a) ==
    IF a.ts_test = None THEN Raises("ValueError", a)
    ELSE IF a.ts_test.dtype # "int" /\ (a.model_fit # None \/ a.auto_model # None)
    THEN Raises("ValueError", a)
    ELSE LET m == IF a.model_fit = None THEN None ELSE forecast(a, None)
             u == IF a.auto_model = None THEN None ELSE auto_forecast(a, None)
         IN  IF m # None /\ m.exc # "" THEN Raises(m.exc, a)
             ELSE IF m # None /\ SklearnRaises(a.ts_test.values, m.ret) THEN Raises("ValueError", a)
             ELSE IF u # None /\ u.exc # "" THEN Raises(u.exc, a)
             ELSE IF u # None /\ SklearnRaises(a.ts_test.values, u.ret) THEN Raises("ValueError", a)
             ELSE Returns(a,
                    [manual |-> IF m = None THEN None ELSE EvalMetrics(a.ts_test.values, m.ret),
                     auto |-> IF u = None THEN None ELSE EvalMetrics(a.ts_test.values, u.ret)])

-----------------------------------------------------------------------------
(* api_server.py: POST /api/forecast *)

\* request.get_json() raises BadRequest when the body of a JSON request is
\* empty; the handler's except clause catches it like any other exception
GetJsonRaises(r) == r.body = "absent"

\* not request_data or 'data' not in request_data
MissingDataField(r) == r.body \in {"null", "empty", "nodata"}

\* len(time_series_data) raises TypeError on a number
DataLenRaises(r) == r.data.type = "number"

\* InsufficientData with the comparison off by one (<= for <)
InsufficientDataOffByOne(r) ==
    r.data.type = "null" \/ (r.data.type = "list" /\ r.data.n <= MinPoints)

\* not time_series_data or len(time_series_data) < 10
InsufficientData(r) == r.data.type = "null" \/ (r.data.type = "list" /\ r.data.n < MinPoints)

\* 'date' not in df.columns or 'value' not in df.columns
BadColumns(r) == ~InSeq("date", r.data.cols) \/ ~InSeq("value", r.data.cols)

\* request_data.get('column_name', 'value')
RestColumnName(r) == IF r.column_name = Absent THEN "value" ELSE r.column_name

\* RestSteps that ignores the request and always uses the default
RestStepsAlwaysDefault(r) == [int |-> DefaultSteps]

\* request_data.get('forecast_steps', 12): None for a JSON null
RestSteps(r) ==
    CASE r.forecast_steps.type = "absent" -> [int |-> DefaultSteps]
      [] r.forecast_steps.type = "null" -> None
      [] OTHER -> [int |-> r.forecast_steps.int]

\* config.get('train_size', 0.8)
RestTrainSize(r) == IF r.config.train_size = <<>> THEN <<4, 5>> ELSE r.config.train_size

\* config.get('model_type', 'auto')
RestModelType(r) == IF r.config.model_type = Absent THEN "auto" ELSE r.config.model_type

\* pd.to_datetime(df['date']) raises on a string that is no date
ToDatetimeRaises(r) == \E i \in 1..r.data.n : ~ParsesAsDate(r.data.cells["date"][i])

\* the columns left after df.set_index('date')
RestValueColumns(r) == SelectSeq(r.data.cols, LAMBDA c : c # "date")

\* df.columns = [column_name] raises unless exactly one column is left
RenameRaises(r) == Len(RestValueColumns(r)) # 1

\* df after lines 53-62: indexed by the parsed dates, its one column renamed
RestFrame(r) ==
    Table(DatetimeIndex([i \in 1..r.data.n |-> to_datetime(r.data.cells["date"][i])]),
          <<RestColumnName(r)>>,
          [c \in {RestColumnName(r)} |-> r.data.cells[RestValueColumns(r)[1]]],
          [c \in {RestColumnName(r)} |-> r.data.dtype[RestValueColumns(r)[1]]])

\* lines 77-90: the model the handler fits and the forecast it asks for
RestFitAndForecast(a, r) ==
    IF RestModelType(r) = "manual"
    THEN LET fit == fit_arima(a)
         IN  IF fit.exc # "" THEN fit ELSE forecast(fit.a, RestSteps(r))
    ELSE LET fit == fit_auto_arima(a)
         IN  IF fit.exc # "" THEN fit ELSE auto_forecast(fit.a, RestSteps(r))

\* lines 93-126
RestMetricsOf(a, forecast_values) ==
    IF a.ts_test # None /\ Len(a.ts_test.values) > 0
    THEN RestMetrics(a.ts_test.values, forecast_values)
    ELSE NoMetrics

\* pd.date_range raises when periods is None or negative
DateRangeRaises(steps) == steps = None \/ steps.int < 0

\* lines 129-131: the month starts after the last date of the whole input
RestForecastDates(frame, steps) ==
    LET last_date == frame.index.labels[Len(frame.index.labels)]
        dates == date_range_MS(PlusOneMonth(last_date), steps.int)
    IN  [i \in 1..Len(dates) |-> strftime(dates[i])]

\* ErrorResponse returned without its status code, which Flask answers with 200
ErrorResponseWithoutStatus(status, msg) ==
    [status |-> 200, keys |-> {"error"}, error |-> msg, forecast |-> <<>>,
     dates |-> <<>>, metrics |-> NoMetrics, model_type |-> Absent]

ErrorResponse(status, msg) ==
    [status |-> status, keys |-> {"error"}, error |-> msg, forecast |-> <<>>,
     dates |-> <<>>, metrics |-> NoMetrics, model_type |-> Absent]

\* lines 134-163
SuccessResponse(r, a, forecast_values, metrics, dates) ==
    [status |-> 200,
     keys |-> {"forecast", "dates", "metrics", "config"} \cup
              (IF RestModelType(r) = "manual" /\ a.model_fit # None
               THEN {"model_info"} ELSE {}),
     error |-> "",
     forecast |-> forecast_values,
     dates |-> dates,
     metrics |-> metrics,
     model_type |-> RestModelType(r)]

\* the whole handler: the response and the analyzer it leaves behind
\* (None when the handler returns before constructing one)
forecast_endpoint(r) ==
    IF GetJsonRaises(r) THEN [resp |-> ErrorResponse(500, "BadRequest"), a |-> None]
    ELSE IF MissingDataField(r)
    THEN [resp |-> ErrorResponse(400, "Missing required data field"), a |-> None]
    ELSE IF DataLenRaises(r) THEN [resp |-> ErrorResponse(500, "TypeError"), a |-> None]
    ELSE IF InsufficientData(r)
    THEN [resp |-> ErrorResponse(400, "Insufficient data points. At least 10 are required."),
          a |-> None]
    ELSE IF BadColumns(r)
    THEN [resp |-> ErrorResponse(400, "Data must contain 'date' and 'value' columns"),
          a |-> None]
    ELSE IF ToDatetimeRaises(r) THEN [resp |-> ErrorResponse(500, "ValueError"), a |-> None]
    ELSE IF RenameRaises(r) THEN [resp |-> ErrorResponse(500, "ValueError"), a |-> None]
    ELSE LET frame == RestFrame(r)
             a0 == [NewAnalyzer EXCEPT !.ts = Column(frame, RestColumnName(r))]
             split == split_data(a0, RestTrainSize(r))
             fc == RestFitAndForecast(split.a, r)
         IN  IF split.exc # "" THEN [resp |-> ErrorResponse(500, split.exc), a |-> split.a]
             ELSE IF fc.exc # "" THEN [resp |-> ErrorResponse(500, fc.exc), a |-> fc.a]
             ELSE IF DateRangeRaises(RestSteps(r))
             THEN [resp |-> ErrorResponse(500, "ValueError"), a |-> fc.a]
             ELSE [resp |-> SuccessResponse(r, fc.a, fc.ret, RestMetricsOf(fc.a, fc.ret),
                                            RestForecastDates(frame, RestSteps(r))),
                   a |-> fc.a]

-----------------------------------------------------------------------------
(* ARIMATimeSeriesAnalyzer.load_data *)

\* the column names of a wide (one row per region, one column per month) file
MonthEndNames ==
    <<"2014-12-31", "2015-01-31", "2015-02-28", "2015-03-31", "2015-04-30",
      "2015-05-31", "2015-06-30", "2015-07-31", "2015-08-31", "2015-09-30",
      "2015-10-31", "2015-11-30", "2015-12-31">>

MonthEndDays == <<31, 31, 28, 31, 30, 31, 30, 31, 31, 30, 31, 30, 31>>

\* pd.to_datetime of a column name
ColumnDate(name) ==
    [mo |-> 2014 * 12 + 11 + (PosOf(name, MonthEndNames) - 1),
     d |-> MonthEndDays[PosOf(name, MonthEndNames)]]

\* alphabetical order of the region names in use
RegionOrder == <<"Austin, TX", "Chicago, IL", "Dallas, TX", "Los Angeles, CA", "New York, NY">>

RECURSIVE SortInts(_)
SortInts(S) ==
    IF S = {} THEN <<>>
    ELSE LET m == CHOOSE x \in S : \A y \in S : x <= y
         IN  <<m>> \o SortInts(S \ {m})

\* a missing cell (NaN) in a numeric column
IsMissing(v) == v < 0

\* cls._df.columns[cls._df.columns.get_loc("2015-01-31"):]
DateCols(t) == SubSeq(t.columns, PosOf("2015-01-31", t.columns), Len(t.columns))

\* melt + to_datetime + pivot(index="date", columns="RegionName") + dropna(axis=1)
\* over the id column idcol and the date columns dcols: one row per date
\* column in date order, one column per region in name order, the regions
\* with a missing cell dropped
Reshaped(t, idcol, dcols) ==
    LET names == t.data[idcol]
        byMo == [c \in {dcols[i] : i \in 1..Len(dcols)} |-> ColumnDate(c).mo]
        mos == SortInts({byMo[c] : c \in DOMAIN byMo})
        colOf(mo) == CHOOSE c \in DOMAIN byMo : byMo[c] = mo
        row(name) == PosOf(name, names)
        complete(name) == \A i \in 1..Len(dcols) : ~IsMissing(t.data[dcols[i]][row(name)])
        ranks == SortInts({PosOf(names[i], RegionOrder) : i \in 1..Len(names)})
        kept == SelectSeq([i \in 1..Len(ranks) |-> RegionOrder[ranks[i]]], complete)
    IN  Table(DatetimeIndex([i \in 1..Len(mos) |-> ColumnDate(colOf(mos[i]))]),
              kept,
              [c \in {kept[i] : i \in 1..Len(kept)} |->
                  [i \in 1..Len(mos) |-> t.data[colOf(mos[i])][row(c)]]],
              [c \in {kept[i] : i \in 1..Len(kept)} |-> "int"])

\* pivot raises ValueError when a region occurs twice
PivotRaises(t, idcol) ==
    \E i, j \in 1..Len(t.data[idcol]) : i # j /\ t.data[idcol][i] = t.data[idcol][j]

\* load_data(data_source): the exception raised ("" if none) and the class
\* variable _df afterwards. The CSV branch assigns the raw table to _df
\* before it reshapes it, so a failed reshape leaves the raw table behind.
load_data(old, src) ==
    IF src.type = "csv"
    THEN IF ~src.exists THEN [exc |-> "FileNotFoundError", df |-> old]
         ELSE IF ~InSeq("2015-01-31", src.table.columns)
         THEN [exc |-> "KeyError", df |-> src.table]
         ELSE IF ~InSeq("RegionName", src.table.columns)
         THEN [exc |-> "KeyError", df |-> src.table]
         ELSE IF \E i \in 1..Len(DateCols(src.table)) :
                    ~InSeq(DateCols(src.table)[i], MonthEndNames)
         THEN [exc |-> "ValueError", df |-> src.table]
         ELSE IF PivotRaises(src.table, "RegionName")
         THEN [exc |-> "ValueError", df |-> src.table]
         ELSE [exc |-> "", df |-> Reshaped(src.table, "RegionName", DateCols(src.table))]
    ELSE IF src.type = "DataFrame" THEN [exc |-> "", df |-> src.table]
    ELSE IF src.type = "list" THEN [exc |-> "", df |-> DataFrameOfRecords(src.recs)]
    ELSE IF src.convertible THEN [exc |-> "", df |-> src.table]
    ELSE [exc |-> "ValueError", df |-> old]

-----------------------------------------------------------------------------
(* ARIMATimeSeriesAnalyzer.run_api_analysis *)

\* config.get('trainSize', 0.8)
CliTrainSize(r) == IF r.config.trainSize = <<>> THEN <<4, 5>> ELSE r.config.trainSize

\* config.get('modelType', 'auto')
CliModelType(r) == IF r.config.modelType = Absent THEN "auto" ELSE r.config.modelType

\* lines 482-494: the model run_api_analysis fits and the forecast over the test window
CliFitAndForecast(a, r) ==
    IF CliModelType(r) = "auto"
    THEN LET fit == fit_auto_arima(a)
         IN  IF fit.exc # "" THEN fit ELSE auto_forecast(fit.a, None)
    ELSE LET fit == fit_arima(a)
         IN  IF fit.exc # "" THEN fit ELSE forecast(fit.a, None)

ZeroMetrics ==
    [keys |-> {"rmse", "mae", "r2", "accuracy"},
     rmse |-> Sqrt(RInt(0)), mae |-> RInt(0), r2 |-> RInt(0), accuracy |-> RInt(0)]

\* CliError that returns the forecast slot unfilled (None) instead of []
CliErrorWithoutLists(msg) ==
    [keys |-> {"error", "metrics", "forecast", "dates"}, error |-> msg,
     metrics |-> ZeroMetrics, forecast |-> None, dates |-> None, modelType |-> Absent]

\* lines 523-534
CliError(msg) ==
    [keys |-> {"error", "metrics", "forecast", "dates"}, error |-> msg,
     metrics |-> ZeroMetrics, forecast |-> <<>>, dates |-> <<>>, modelType |-> Absent]

\* self.ts_test.index.strftime('%Y-%m-%d').tolist(): only a DatetimeIndex has strftime
TestDatesRaises(a) == a.ts_test.index.kind # "date"

TestDates(a) == [i \in 1..Len(a.ts_test.index.labels) |-> strftime(a.ts_test.index.labels[i])]

\* lines 505-521
CliResult(r, a, fc) ==
    [keys |-> {"metrics", "forecast", "dates", "config"}, error |-> "",
     metrics |-> CliMetrics(a.ts_test.values, fc), forecast |-> fc,
     dates |-> TestDates(a), modelType |-> CliModelType(r)]

\* the whole method on the instance a: the dict returned, _df and the instance afterwards
run_api_analysis(old, a, r) ==
    LET load == load_data(old, r.source)
        sel == select_column(a, load.df, r.column)
        split == split_data(sel.a, CliTrainSize(r))
        fc == CliFitAndForecast(split.a, r)
    IN  IF load.exc # "" THEN [out |-> CliError(load.exc), df |-> load.df, a |-> a]
        ELSE IF sel.exc # "" THEN [out |-> CliError(sel.exc), df |-> load.df, a |-> sel.a]
        ELSE IF split.exc # "" THEN [out |-> CliError(split.exc), df |-> load.df, a |-> split.a]
        ELSE IF fc.exc # "" THEN [out |-> CliError(fc.exc), df |-> load.df, a |-> fc.a]
        ELSE IF SklearnRaises(fc.a.ts_test.values, fc.ret)
        THEN [out |-> CliError("ValueError"), df |-> load.df, a |-> fc.a]
        ELSE IF TestDatesRaises(fc.a)
        THEN [out |-> CliError("AttributeError"), df |-> load.df, a |-> fc.a]
        ELSE [out |-> CliResult(r, fc.a, fc.ret), df |-> load.df, a |-> fc.a]

-----------------------------------------------------------------------------
(* Inputs *)

Vals == 0..MaxVal

\* the values of an input series of n points: the last TailFree vary
SeriesValues(n, tail) ==
    [i \in 1..n |-> IF i <= n - TailFree THEN 1 ELSE tail[i - (n - TailFree)]]

\* monthly date strings from January 2022, all on the same day of the month
SeriesDates(n, day) == [i \in 1..n |-> <<2022 + ((i - 1) \div 12), ((i - 1) % 12) + 1, day>>]

Lens == (MinPoints - 1)..(MinPoints + 1)

\* a JSON list of n records with the keys cols
Records(n, cols, dates, values) ==
    [type |-> "list", n |-> n, cols |-> cols,
     cells |-> [c \in {cols[i] : i \in 1..Len(cols)} |->
                  CASE c = "date" -> dates
                    [] c = "value" -> values
                    [] OTHER -> [i \in 1..n |-> "Austin, TX"]],
     dtype |-> [c \in {cols[i] : i \in 1..Len(cols)} |->
                  CASE c = "date" -> "date_str"
                    [] c = "value" -> "int"
                    [] OTHER -> "str"]]

\* a JSON value that is no list: null or a number
Scalar(type) == [type |-> type, n |-> 0, cols |-> <<>>, cells |-> <<>>, dtype |-> <<>>]

NoSteps == [type |-> "absent", int |-> 0]

NoConfig == [model_type |-> Absent, train_size |-> <<>>, modelType |-> Absent, trainSize |-> <<>>]

NoSource == [type |-> "none", exists |-> FALSE, convertible |-> FALSE, table |-> None, recs |-> None]

ListSource(recs) ==
    [type |-> "list", exists |-> FALSE, convertible |-> FALSE, table |-> None, recs |-> recs]

FrameSource(t) ==
    [type |-> "DataFrame", exists |-> FALSE, convertible |-> FALSE, table |-> t, recs |-> None]

OtherSource(convertible, t) ==
    [type |-> "other", exists |-> FALSE, convertible |-> convertible, table |-> t, recs |-> None]

CsvSource(exists, t) ==
    [type |-> "csv", exists |-> exists, convertible |-> FALSE, table |-> t, recs |-> None]

Request(body, data, column_name, steps, config, source, column) ==
    [body |-> body, data |-> data, column_name |-> column_name, forecast_steps |-> steps,
     config |-> config, source |-> source, column |-> column]

StepsValues ==
    {NoSteps, [type |-> "null", int |-> 0]} \cup {[type |-> "int", int |-> k] : k \in 0..MaxSteps}

ModelTypes == {Absent, "auto", "manual", "sarima"}

TrainSizes == {<<>>, <<1, 2>>, <<1, 1>>}

ColumnSets == {<<"date", "value">>, <<"value", "date">>, <<"date">>, <<"value">>,
               <<"date", "value", "region">>, <<"region">>}

\* the requests posted to /api/forecast
RestRequests ==
    {Request(b, Scalar("null"), Absent, NoSteps, NoConfig, NoSource, Absent) :
        b \in {"absent", "null", "empty", "nodata"}}
    \cup
    {Request("object", Scalar(t), Absent, NoSteps, NoConfig, NoSource, Absent) :
        t \in {"null", "number"}}
    \cup
    {Request("object", Records(n, cols, SeriesDates(n, day), SeriesValues(n, [i \in 1..TailFree |-> 1])),
             name, NoSteps, NoConfig, NoSource, Absent) :
        n \in {0} \cup Lens, cols \in ColumnSets, day \in {0, 1, 15}, name \in {Absent, "Austin, TX"}}
    \cup
    {Request("object", Records(n, <<"date", "value">>, SeriesDates(n, 1), SeriesValues(n, tail)),
             Absent, steps, [NoConfig EXCEPT !.model_type = mt, !.train_size = ts], NoSource, Absent) :
        n \in MinPoints..(MinPoints + 1), tail \in [1..TailFree -> Vals], steps \in StepsValues,
        mt \in ModelTypes, ts \in TrainSizes}

\* what the estimator library can answer
Libs ==
    {[fit_ok |-> TRUE, level |-> l, slope |-> s] : l \in Vals, s \in {-1, 0, 1}}
    \cup {[fit_ok |-> FALSE, level |-> 0, slope |-> 0]}

-----------------------------------------------------------------------------
(* State *)

NewSession ==
    [data_loaded |-> FALSE, column_selected |-> FALSE, model_fit |-> FALSE,
     auto_model_fit |-> FALSE, forecast_generated |-> FALSE, auto_forecast_generated |-> FALSE]

\* everything but the estimator library
Constructed ==
    /\ req = None
    /\ restA = None
    /\ restResp = None
    /\ cliDf = None
    /\ cliA = NewAnalyzer
    /\ cliOut = None
    /\ df = None
    /\ an = NewAnalyzer
    /\ anS = NewAnalyzer
    /\ last = None
    /\ dfS = None
    /\ lastS = None
    /\ dashDf = None
    /\ dashA = None
    /\ session = NewSession
    /\ dashOut = None
    /\ proc = None
    /\ tab = None

Init == lib = None /\ Constructed

-----------------------------------------------------------------------------
(* The REST service *)

\* a client posts a request to /api/forecast
SubmitRest ==
    /\ req = None
    /\ req' \in RestRequests
    /\ lib' \in Libs
    /\ UNCHANGED <<restA, restResp, cliDf, cliA, cliOut, df, an, anS, last, dfS, lastS,
                   dashDf, dashA, session, dashOut, proc, tab>>

\* api_server.py forecast(): the handler runs to its response
RestForecast ==
    /\ req # None
    /\ restResp = None
    /\ restResp' = forecast_endpoint(req).resp
    /\ restA' = forecast_endpoint(req).a
    /\ UNCHANGED <<req, lib, cliDf, cliA, cliOut, df, an, anS, last, dfS, lastS,
                   dashDf, dashA, session, dashOut, proc, tab>>

NextRest == SubmitRest \/ RestForecast

SpecRest == Init /\ [][NextRest]_vars

-----------------------------------------------------------------------------
(* Properties of the REST service *)

\* the number of forecast steps a request asks for
RequestedSteps == IF req.forecast_steps.type = "absent" THEN DefaultSteps ELSE req.forecast_steps.int

\* C7: every status-200 response of /api/forecast carries exactly
\* forecast_steps forecast values and exactly forecast_steps dates (12 of
\* each when forecast_steps is omitted), for the manual and the automatic model
C7_ForecastAndDatesHaveRequestedLength ==
    (restResp # None /\ restResp.status = 200) =>
        /\ req.forecast_steps.type # "null"
        /\ Len(restResp.forecast) = RequestedSteps
        /\ Len(restResp.dates) = RequestedSteps

\* a manual-model request without forecast_steps answered with 12 values and 12 dates
C7_Witness ==
    /\ restResp # None
    /\ restResp.status = 200
    /\ req.forecast_steps.type = "absent"
    /\ restResp.model_type = "manual"
    /\ Len(restResp.forecast) = 12
    /\ Len(restResp.dates) = 12

\* the request fails the handler's validation of body, data field or columns
C8_Malformed ==
    \/ req.body \in {"absent", "null", "empty", "nodata"}
    \/ /\ req.body = "object"
       /\ req.data.type = "list"
       /\ (~InSeq("date", req.data.cols) \/ ~InSeq("value", req.data.cols))

\* C8: a POST whose JSON body is missing or empty, lacks the 'data' field, or
\* whose records lack 'date' or 'value' is answered with status 400 and an
\* 'error' message, and no analyzer is split or fitted for it
C8_MalformedRequestIs400 ==
    (restResp # None /\ C8_Malformed) =>
        /\ restResp.status = 400
        /\ "error" \in restResp.keys
        /\ restA = None

InsufficientMessage == "Insufficient data points. At least 10 are required."

\* C9: a request whose 'data' list has fewer than 10 records (an empty list
\* included) is answered 400 "Insufficient data points. At least 10 are
\* required."; a request with 10 or more records is never answered with it
C9_TenRecordsRequired ==
    (restResp # None /\ req.body = "object" /\ req.data.type = "list") =>
        /\ req.data.n < 10 => (restResp.status = 400 /\ restResp.error = InsufficientMessage)
        /\ req.data.n >= 10 => restResp.error # InsufficientMessage

\* a request of nine records rejected, and no analyzer built for it
C9_Witness ==
    /\ restResp # None
    /\ req.body = "object"
    /\ req.data.type = "list"
    /\ req.data.n = 9
    /\ restResp.status = 400
    /\ restResp.error = InsufficientMessage

\* the request passes the handler's three validations
C10_Validated ==
    /\ req.body = "object"
    /\ req.data.type = "list"
    /\ req.data.n >= 10
    /\ InSeq("date", req.data.cols)
    /\ InSeq("value", req.data.cols)

\* something raises after validation: date parsing, the column rename, the
\* fit, the forecast (fewer than one step) or the date generation (no periods)
C10_RaisesAfterValidation ==
    \/ \E i \in 1..req.data.n : ~ParsesAsDate(req.data.cells["date"][i])
    \/ Len(req.data.cols) # 2
    \/ ~lib.fit_ok
    \/ req.forecast_steps.type = "null"
    \/ (req.forecast_steps.type = "int" /\ req.forecast_steps.int < 1)

\* C10: every request is answered with status 200, 400 or 500; an exception
\* raised after validation is answered with status 500; a 400 or 500 body
\* holds only 'error', and a 200 body holds the whole result and no 'error'
C10_ExceptionsBecome500 ==
    restResp # None =>
        /\ restResp.status \in {200, 400, 500}
        /\ (C10_Validated /\ C10_RaisesAfterValidation) => restResp.status = 500
        /\ restResp.status # 200 =>
              /\ restResp.keys = {"error"}
              /\ restResp.forecast = <<>>
              /\ restResp.dates = <<>>
              /\ restResp.metrics = NoMetrics
        /\ restResp.status = 200 =>
              /\ {"forecast", "dates", "metrics", "config"} \subseteq restResp.keys
              /\ "error" \notin restResp.keys

\* a validated request whose fit raises after the split, answered with 500
C10_Witness ==
    /\ restResp # None
    /\ C10_Validated
    /\ ~lib.fit_ok
    /\ restA # None
    /\ restA.ts_train # None
    /\ restResp.status = 500
    /\ restResp.keys = {"error"}

\* the date of the k-th monthly time step of the request's series, counted
\* from its first record on into the months after its last record
C16_StepDate(k) ==
    LET labels == restA.ts.index.labels
        n == Len(labels)
    IN  IF k <= n THEN strftime(labels[k])
        ELSE strftime([mo |-> labels[n].mo + (k - n), d |-> labels[n].d])

\* C16: in a status-200 response dates[i] is the date of the time step that
\* forecast[i] predicts; the model is fitted on the training window, so
\* forecast[i] predicts the i-th step after it, where the test window begins
C16_DatesAlignedWithForecast ==
    (restResp # None /\ restResp.status = 200) =>
        \A i \in 1..Len(restResp.forecast) :
            restResp.dates[i] = C16_StepDate(Len(restA.ts_train.values) + i)

-----------------------------------------------------------------------------
(* The batch mode *)

\* a DataFrame of one value column indexed by the parsed dates
DatedFrame(n, tail) ==
    Table(DatetimeIndex([i \in 1..n |-> to_datetime(SeriesDates(n, 1)[i])]),
          <<"value">>,
          [c \in {"value"} |-> SeriesValues(n, tail)],
          [c \in {"value"} |-> "int"])

\* the same records as a DataFrame that keeps the default RangeIndex
PlainFrame(n, tail) ==
    DataFrameOfRecords(Records(n, <<"date", "value">>, SeriesDates(n, 1), SeriesValues(n, tail)))

\* the data sources handed to run_api_analysis
CliSources ==
    {ListSource(Records(n, <<"date", "value">>, SeriesDates(n, 1), SeriesValues(n, tail))) :
        n \in {TailFree + 1, MinPoints}, tail \in [1..TailFree -> Vals]}
    \cup {FrameSource(DatedFrame(n, tail)) :
        n \in {TailFree + 1, MinPoints}, tail \in [1..TailFree -> Vals]}
    \cup {FrameSource(PlainFrame(MinPoints, [i \in 1..TailFree |-> 1])),
          OtherSource(FALSE, None),
          OtherSource(TRUE, PlainFrame(MinPoints, [i \in 1..TailFree |-> 1]))}

CliInputs ==
    {Request("none", Scalar("null"), Absent, NoSteps,
             [NoConfig EXCEPT !.modelType = mt, !.trainSize = ts], src, col) :
        mt \in ModelTypes, ts \in TrainSizes, src \in CliSources, col \in {"value", "price"}}

\* the caller hands data, column and config to run_api_analysis
SubmitCli ==
    /\ req = None
    /\ req' \in CliInputs
    /\ lib' \in Libs
    /\ UNCHANGED <<restA, restResp, cliDf, cliA, cliOut, df, an, anS, last, dfS, lastS,
                   dashDf, dashA, session, dashOut, proc, tab>>

\* main.py run_api_analysis: the method runs to its return
CliRun ==
    /\ req # None
    /\ cliOut = None
    /\ cliOut' = run_api_analysis(cliDf, cliA, req).out
    /\ cliDf' = run_api_analysis(cliDf, cliA, req).df
    /\ cliA' = run_api_analysis(cliDf, cliA, req).a
    /\ UNCHANGED <<req, lib, restA, restResp, df, an, anS, last, dfS, lastS,
                   dashDf, dashA, session, dashOut, proc, tab>>

\* lines 576-590: the handler of an exception in api mode; the second write
\* of the output file is not protected
ApiModeFailure(args, msg) ==
    [args |-> args, exit |-> 1, output |-> IF args.writable THEN CliError(msg) ELSE None]

\* python main.py --mode api [--input i --output o], lines 550-590: the exit
\* status, the content of the output file (None if it was not written), and
\* the result, _df and the analyzer of the process
api_mode(args, r) ==
    LET run == run_api_analysis(None, NewAnalyzer, r)
        none == [out |-> None, df |-> None, a |-> NewAnalyzer]
    IN  IF ~args.given THEN [p |-> [args |-> args, exit |-> 1, output |-> None], run |-> none]
        ELSE IF args.input = "missing"
        THEN [p |-> ApiModeFailure(args, "FileNotFoundError"), run |-> none]
        ELSE IF args.input = "invalid"
        THEN [p |-> ApiModeFailure(args, "JSONDecodeError"), run |-> none]
        ELSE IF ~args.writable
        THEN [p |-> ApiModeFailure(args, "PermissionError"), run |-> run]
        ELSE [p |-> [args |-> args, exit |-> 0, output |-> run.out], run |-> run]

\* the command lines of api mode: whether --input and --output are given,
\* what the input file holds and whether the output file can be written
ApiArgs ==
    {[given |-> g, input |-> i, writable |-> w] :
        g \in BOOLEAN, i \in {"json", "missing", "invalid"}, w \in BOOLEAN}

\* main.py in api mode on an input file holding data, column and config
\* (JSON holds no DataFrame): the process runs to its exit
CliMain ==
    /\ req # None
    /\ req.source.type # "DataFrame"
    /\ cliOut = None
    /\ proc = None
    /\ \E args \in ApiArgs :
          \E m \in {api_mode(args, req)} :
              /\ proc' = m.p
              /\ cliOut' = m.run.out
              /\ cliDf' = m.run.df
              /\ cliA' = m.run.a
    /\ UNCHANGED <<req, lib, restA, restResp, df, an, anS, last, dfS, lastS,
                   dashDf, dashA, session, dashOut, tab>>

NextCli == SubmitCli \/ CliRun \/ CliMain

SpecCli == Init /\ [][NextCli]_vars

-----------------------------------------------------------------------------
(* Properties of the batch mode *)

\* the batch input is a list of records with the named column, enough points
\* to fit a model, and a test window that is not empty
C4_WellFormedInput ==
    /\ req.source.type = "list"
    /\ InSeq(req.column, req.source.recs.cols)
    /\ req.source.recs.n >= MinPoints
    /\ lib.fit_ok
    /\ req.config.trainSize \in {<<>>, <<1, 2>>}

\* C4: for well-formed batch input run_api_analysis returns a result without
\* 'error' whose 'forecast' and 'dates' have one entry per point of the test window
C4_WellFormedBatchSucceeds ==
    (cliOut # None /\ C4_WellFormedInput) =>
        /\ "error" \notin cliOut.keys
        /\ Len(cliOut.forecast) = Len(cliA.ts_test.values)
        /\ Len(cliOut.dates) = Len(cliA.ts_test.values)

\* a stage of run_api_analysis fails on the input: the load, the column
\* selection, the fit, the forecast (empty test window) or the test dates
C11_StageFails ==
    \/ req.source.type = "other" /\ ~req.source.convertible
    \/ cliDf # None /\ ~InSeq(req.column, cliDf.columns)
    \/ ~lib.fit_ok
    \/ CliTrainSize(req) = <<1, 1>>
    \/ cliDf # None /\ cliDf.index.kind # "date"

\* the error result: an 'error' string, four zero metrics, empty lists
C11_IsErrorResult(out) ==
    /\ out.keys = {"error", "metrics", "forecast", "dates"}
    /\ out.error # ""
    /\ out.metrics.keys = {"rmse", "mae", "r2", "accuracy"}
    /\ out.metrics.rmse = Sqrt(RInt(0))
    /\ out.metrics.mae = RInt(0)
    /\ out.metrics.r2 = RInt(0)
    /\ out.metrics.accuracy = RInt(0)
    /\ out.forecast = <<>>
    /\ out.dates = <<>>

\* C11: run_api_analysis always returns a dict; when loading, column
\* selection, splitting, fitting, forecasting or the metrics fail it is the
\* error result: an 'error' string, all four metrics 0, 'forecast' and
\* 'dates' empty
C11_FailureReturnsErrorResult ==
    cliOut # None =>
        /\ "error" \in cliOut.keys => C11_IsErrorResult(cliOut)
        /\ "error" \notin cliOut.keys =>
              cliOut.keys = {"metrics", "forecast", "dates", "config"}
        /\ C11_StageFails => "error" \in cliOut.keys

\* the fit raised after a successful load, selection and split, and the
\* error result came back
C11_Witness ==
    /\ cliOut # None
    /\ ~lib.fit_ok
    /\ cliDf # None
    /\ cliA.ts_train # None
    /\ cliA.model_fit = None /\ cliA.auto_model = None
    /\ cliOut.error = "LibraryError"
    /\ cliOut.forecast = <<>>

\* C12: in api mode with --input and --output given, a run whose analysis
\* fails writes the error result to the output file and exits with status 1
C12_FailedRunExitsWithOne ==
    (proc # None /\ proc.args.given /\ proc.args.input = "json" /\ proc.args.writable
        /\ cliOut # None /\ "error" \in cliOut.keys) =>
        /\ proc.output = cliOut
        /\ C11_IsErrorResult(proc.output)
        /\ proc.exit = 1

-----------------------------------------------------------------------------
(* The front ends side by side: one series and one configuration, handed to
   each front end in its own input format *)

\* the same series and configuration as a REST request and as batch input;
\* the batch data is the list of records itself or a date-indexed DataFrame of it
CrossInputs ==
    {Request("object",
             Records(n, <<"date", "value">>, SeriesDates(n, 1), SeriesValues(n, tail)),
             Absent, NoSteps,
             [model_type |-> mt, train_size |-> ts, modelType |-> mt, trainSize |-> ts],
             IF k = "list"
             THEN ListSource(Records(n, <<"date", "value">>, SeriesDates(n, 1),
                                     SeriesValues(n, tail)))
             ELSE FrameSource(DatedFrame(n, tail)),
             "value") :
        n \in MinPoints..(MinPoints + 1), tail \in [1..TailFree -> Vals],
        mt \in ModelTypes, ts \in {<<>>, <<1, 2>>}, k \in {"list", "frame"}}

\* the same input reaches the REST service and the batch mode
SubmitCross ==
    /\ req = None
    /\ req' \in CrossInputs
    /\ lib' \in Libs
    /\ UNCHANGED <<restA, restResp, cliDf, cliA, cliOut, df, an, anS, last, dfS, lastS,
                   dashDf, dashA, session, dashOut, proc, tab>>

NextCross == SubmitCross \/ RestForecast \/ CliRun

SpecCross == Init /\ [][NextCross]_vars

\* C2: for every model-type value of a request's config (an absent one
\* included) the REST endpoint and the batch mode fit the same kind of model:
\* a manual ARIMA exactly when the value is 'manual', an automatic one otherwise
C2_SameModelForSameModelType ==
    (restResp # None /\ cliOut # None /\ lib.fit_ok
        /\ req.config.model_type = req.config.modelType) =>
        /\ (restA.model_fit # None) <=> (cliA.model_fit # None)
        /\ (restA.auto_model # None) <=> (cliA.auto_model # None)
        /\ (restA.model_fit # None) <=> (req.config.model_type = "manual")
        /\ (restA.auto_model # None) <=> (req.config.model_type # "manual")

\* the REST endpoint and the batch mode have scored the same forecast values
\* against the same test window, and the dashboard's evaluate_models can
\* score them too
C1_SameWindowAndForecast ==
    /\ restResp # None /\ restResp.status = 200
    /\ cliOut # None /\ cliOut.error = ""
    /\ restA.ts_test.values = cliA.ts_test.values
    /\ Len(restResp.forecast) >= Len(cliOut.forecast)
    /\ SubSeq(restResp.forecast, 1, Len(cliOut.forecast)) = cliOut.forecast
    /\ evaluate_models(cliA).exc = ""

\* an entry of evaluate_models agrees with the batch metrics on rmse, mae and r2
C1_EntryAgrees(e, m) == e # None => (e.rmse = m.rmse /\ e.mae = m.mae /\ e.r2 = m.r2)

\* C1: for the same test window and the same forecast values over it the
\* REST endpoint, the batch mode and evaluate_models report the same rmse,
\* mae and r2, and the REST endpoint and the batch mode the same accuracy
C1_MetricsAgree ==
    C1_SameWindowAndForecast =>
        /\ restResp.metrics.rmse = cliOut.metrics.rmse
        /\ restResp.metrics.mae = cliOut.metrics.mae
        /\ restResp.metrics.r2 = cliOut.metrics.r2
        /\ restResp.metrics.accuracy = cliOut.metrics.accuracy
        /\ C1_EntryAgrees(evaluate_models(cliA).ret.manual, cliOut.metrics)
        /\ C1_EntryAgrees(evaluate_models(cliA).ret.auto, cliOut.metrics)

-----------------------------------------------------------------------------
(* ARIMATimeSeriesAnalyzerStreamlit (streamlit_app.py) *)

\* the columns whose name matches ^\d{4}-\d{2}-\d{2}$
StDateCols(t) == SelectSeq(t.columns, LAMBDA c : InSeq(c, MonthEndNames))

\* the other columns
StIdCols(t) == SelectSeq(t.columns, LAMBDA c : ~InSeq(c, MonthEndNames))

\* pd.to_datetime(cls._df[col]) succeeds: on numbers (read as offsets from
\* the epoch) and on strings that all are dates
StParsesAsDates(t, c) ==
    \/ t.dtype[c] = "int"
    \/ t.dtype[c] = "date_str" /\ \A i \in 1..Len(t.data[c]) : ParsesAsDate(t.data[c][i])

\* the parsed column: small numbers all fall on 1970-01-01
StParsedDates(t, c) ==
    [i \in 1..Len(t.data[c]) |->
        IF t.dtype[c] = "int" THEN [mo |-> 1970 * 12, d |-> 1] ELSE to_datetime(t.data[c][i])]

\* lines 81-93: the first column that parses as dates becomes the index
StIndexed(t) ==
    LET c == t.columns[CHOOSE i \in 1..Len(t.columns) :
                 /\ StParsesAsDates(t, t.columns[i])
                 /\ \A j \in 1..(i - 1) : ~StParsesAsDates(t, t.columns[j])]
        rest == SelectSeq(t.columns, LAMBDA x : x # c)
    IN  Table(DatetimeIndex(StParsedDates(t, c)), rest,
              [x \in {rest[i] : i \in 1..Len(rest)} |-> t.data[x]],
              [x \in {rest[i] : i \in 1..Len(rest)} |-> t.dtype[x]])

\* load_data(data_source) of the Streamlit class, for files with at least one
\* column that is not named by a date: whether it returned cls (None after a
\* caught exception) and _df afterwards
st_load_data(old, file) ==
    IF ~file.exists THEN [ok |-> FALSE, df |-> old]
    ELSE IF StDateCols(file.table) # <<>>
    THEN IF PivotRaises(file.table, StIdCols(file.table)[1])
         THEN [ok |-> FALSE, df |-> file.table]
         ELSE [ok |-> TRUE,
               df |-> Reshaped(file.table, StIdCols(file.table)[1], StDateCols(file.table))]
    ELSE IF \E i \in 1..Len(file.table.columns) : StParsesAsDates(file.table, file.table.columns[i])
    THEN [ok |-> TRUE, df |-> StIndexed(file.table)]
    ELSE [ok |-> TRUE, df |-> file.table]

\* select_column of the Streamlit class: reports an error and returns None
\* where the other class raises
st_select_column(a, table, column) ==
    IF table = None THEN Returns(a, None)
    ELSE IF ~InSeq(column, table.columns) THEN Returns(a, None)
    ELSE Returns([a EXCEPT !.ts = Column(table, column)], Self)

StSplitTrain(ts, train_size) == SeriesStop(ts, SplitIdx(Len(ts.values), train_size))

StSplitTest(ts, train_size) == SeriesStart(ts, SplitIdx(Len(ts.values), train_size))

\* split_data of the Streamlit class
st_split_data(a, train_size) ==
    IF a.ts = None THEN Returns(a, None)
    ELSE Returns([a EXCEPT !.ts_train = StSplitTrain(a.ts, train_size),
                           !.ts_test = StSplitTest(a.ts, train_size)], Self)

-----------------------------------------------------------------------------
(* CSV files *)

\* a wide file as read_csv returns it: one row per region, the id column
\* first, then one column per month
WideFile(idcol, dcols, names, rows) ==
    Table(RangeIndex(Len(names)), <<idcol>> \o dcols,
          [c \in {idcol} \cup {dcols[j] : j \in 1..Len(dcols)} |->
              IF c = idcol THEN names
              ELSE [r \in 1..Len(names) |-> rows[r][PosOf(c, dcols)]]],
          [c \in {idcol} \cup {dcols[j] : j \in 1..Len(dcols)} |->
              IF c = idcol THEN "str" ELSE "int"])

\* a long file as read_csv returns it: a 'date' column, then one numeric
\* column per region
LongFile(dates, names, cols) ==
    Table(RangeIndex(Len(dates)), <<"date">> \o names,
          [c \in {"date"} \cup {names[j] : j \in 1..Len(names)} |->
              IF c = "date" THEN dates ELSE cols[PosOf(c, names)]],
          [c \in {"date"} \cup {names[j] : j \in 1..Len(names)} |->
              IF c = "date" THEN "date_str" ELSE "int"])

\* the months of a wide file: k columns from MonthEndNames[from] on
Months(from, k) == SubSeq(MonthEndNames, from, from + k - 1)

TwoRegions == <<"Dallas, TX", "Austin, TX">>

\* two rows of k values: a series ending in tail and a constant row
TwoRows(k, tail) == <<SeriesValues(k, tail), [i \in 1..k |-> 2]>>

\* sample_data.py generate_sample_data: the file it writes, with two of the
\* ten regions and twelve of the sixty months
SampleFile ==
    LongFile([i \in 1..12 |-> <<2019, i, 1>>], <<"New York, NY", "Los Angeles, CA">>,
             <<[i \in 1..12 |-> 1], [i \in 1..12 |-> 2]>>)

-----------------------------------------------------------------------------
(* The analyzer classes driven directly, as main.py's standard mode does *)

\* the record of a call: the method, the exception it raised, its arguments
Call(op, exc, column, train_size) ==
    [op |-> op, exc |-> exc, column |-> column, train_size |-> train_size]

ConstantTail == [i \in 1..TailFree |-> 1]

RisingTail == [i \in 1..TailFree |-> i % (MaxVal + 1)]

\* a wide file whose months start at the column "2015-01-31"
StandardFile(k, tail) == WideFile("RegionName", Months(2, k), TwoRegions, TwoRows(k, tail))

\* a wide file with a month before "2015-01-31"
EarlierFile(k, tail) == WideFile("RegionName", Months(1, k), TwoRegions, TwoRows(k, tail))

\* a wide file without the column "2015-01-31"
LaterFile(k, tail) == WideFile("RegionName", Months(3, k), TwoRegions, TwoRows(k, tail))

\* a wide file whose id column is not called RegionName
CityFile(k, tail) == WideFile("City", Months(2, k), TwoRegions, TwoRows(k, tail))

\* a wide file with a missing cell in its second row
GappyFile(k, tail) ==
    WideFile("RegionName", Months(2, k), TwoRegions,
             <<SeriesValues(k, tail), [i \in 1..k |-> IF i = 1 THEN -1 ELSE 2]>>)

\* a wide file that names the same region twice
TwiceFile(k, tail) ==
    WideFile("RegionName", Months(2, k), <<"Austin, TX", "Austin, TX">>, TwoRows(k, tail))

\* the data sources handed to ARIMATimeSeriesAnalyzer.load_data
Sources ==
    {CsvSource(TRUE, StandardFile(MinPoints, RisingTail)),
     CsvSource(TRUE, EarlierFile(MinPoints, RisingTail)),
     CsvSource(TRUE, LaterFile(MinPoints, RisingTail)),
     CsvSource(TRUE, CityFile(MinPoints, RisingTail)),
     CsvSource(TRUE, GappyFile(MinPoints, RisingTail)),
     CsvSource(TRUE, TwiceFile(MinPoints, RisingTail)),
     CsvSource(TRUE, SampleFile),
     CsvSource(FALSE, None),
     FrameSource(DatedFrame(MinPoints, RisingTail)),
     FrameSource(PlainFrame(MinPoints, RisingTail)),
     ListSource(Records(MinPoints, <<"date", "value">>, SeriesDates(MinPoints, 1),
                        SeriesValues(MinPoints, RisingTail))),
     OtherSource(TRUE, PlainFrame(MinPoints, ConstantTail)),
     OtherSource(FALSE, None)}

Columns == {"value", "date", "Austin, TX", "Dallas, TX", "New York, NY", "RegionName"}

\* train_size arguments, as fractions: inside and outside 0 < train_size < 1
SplitSizes == {<<1, 2>>, <<4, 5>>, <<1, 3>>, <<1, 1>>}

\* ARIMATimeSeriesAnalyzer.load_data(src)
LoadData(S) ==
    \E src \in S :
        /\ LET r == load_data(df, src)
           IN  /\ df' = r.df
               /\ last' = Call("load_data", r.exc, Absent, <<>>)
        /\ UNCHANGED <<req, lib, restA, restResp, cliDf, cliA, cliOut, an, anS, dfS, lastS,
                       dashDf, dashA, session, dashOut, proc, tab>>

\* an.select_column(c)
SelectColumn(C) ==
    \E c \in C :
        /\ an' = select_column(an, df, c).a
        /\ last' = Call("select_column", select_column(an, df, c).exc, c, <<>>)
        /\ UNCHANGED <<req, lib, restA, restResp, cliDf, cliA, cliOut, df, anS, dfS, lastS,
                       dashDf, dashA, session, dashOut, proc, tab>>

\* an.split_data(train_size=t, plot=False)
SplitData(T) ==
    \E t \in T :
        /\ an' = split_data(an, t).a
        /\ last' = Call("split_data", split_data(an, t).exc, Absent, t)
        /\ UNCHANGED <<req, lib, restA, restResp, cliDf, cliA, cliOut, df, anS, dfS, lastS,
                       dashDf, dashA, session, dashOut, proc, tab>>

\* ARIMATimeSeriesAnalyzerStreamlit.load_data(file)
StLoadData(F) ==
    \E file \in F :
        /\ LET r == st_load_data(dfS, file)
           IN  /\ dfS' = r.df
               /\ lastS' = Call("load_data", IF r.ok THEN "" ELSE "st.error", Absent, <<>>)
        /\ UNCHANGED <<req, lib, restA, restResp, cliDf, cliA, cliOut, df, an, anS, last,
                       dashDf, dashA, session, dashOut, proc, tab>>

\* anS.select_column(c)
StSelectColumn(C) ==
    \E c \in C :
        /\ anS' = st_select_column(anS, dfS, c).a
        /\ lastS' = Call("select_column",
                         IF st_select_column(anS, dfS, c).ret = None THEN "st.error" ELSE "",
                         c, <<>>)
        /\ UNCHANGED <<req, lib, restA, restResp, cliDf, cliA, cliOut, df, an, last, dfS,
                       dashDf, dashA, session, dashOut, proc, tab>>

\* anS.split_data(train_size=t, plot=False)
StSplitData(T) ==
    \E t \in T :
        /\ anS' = st_split_data(anS, t).a
        /\ lastS' = Call("split_data",
                         IF st_split_data(anS, t).ret = None THEN "st.error" ELSE "",
                         Absent, t)
        /\ UNCHANGED <<req, lib, restA, restResp, cliDf, cliA, cliOut, df, an, last, dfS,
                       dashDf, dashA, session, dashOut, proc, tab>>

Next == LoadData(Sources) \/ SelectColumn(Columns) \/ SplitData({<<1, 2>>, <<1, 1>>})

Spec == Init /\ [][Next]_vars

\* both classes given the same files, columns and train sizes
SplitFiles ==
    {CsvSource(TRUE, StandardFile(MinPoints, RisingTail)),
     CsvSource(TRUE, EarlierFile(MinPoints + 1, RisingTail))}

SplitColumns == {"Austin, TX", "Dallas, TX"}

NextSplit ==
    \/ LoadData(SplitFiles)
    \/ SelectColumn(SplitColumns)
    \/ SplitData(SplitSizes)
    \/ StLoadData(SplitFiles)
    \/ StSelectColumn(SplitColumns)
    \/ StSplitData(SplitSizes)

SpecSplit == Init /\ [][NextSplit]_vars

\* the record of a call that returns a value: the steps argument and the value
Outcome(op, r, steps) ==
    [op |-> op, exc |-> r.exc, column |-> Absent, train_size |-> <<>>, steps |-> steps,
     ret |-> r.ret]

\* an.fit_arima()
FitArima ==
    /\ an' = fit_arima(an).a
    /\ last' = Outcome("fit_arima", fit_arima(an), None)
    /\ UNCHANGED <<req, lib, restA, restResp, cliDf, cliA, cliOut, df, anS, dfS, lastS,
                   dashDf, dashA, session, dashOut, proc, tab>>

\* an.fit_auto_arima()
FitAutoArima ==
    /\ an' = fit_auto_arima(an).a
    /\ last' = Outcome("fit_auto_arima", fit_auto_arima(an), None)
    /\ UNCHANGED <<req, lib, restA, restResp, cliDf, cliA, cliOut, df, anS, dfS, lastS,
                   dashDf, dashA, session, dashOut, proc, tab>>

\* the steps arguments of forecast and auto_forecast
StepsArgs == {None} \cup {[int |-> k] : k \in {1, MaxSteps}}

\* an.forecast(steps, plot=False)
Forecast ==
    \E steps \in StepsArgs :
        /\ an' = forecast(an, steps).a
        /\ last' = Outcome("forecast", forecast(an, steps), steps)
        /\ UNCHANGED <<req, lib, restA, restResp, cliDf, cliA, cliOut, df, anS, dfS, lastS,
                       dashDf, dashA, session, dashOut, proc, tab>>

\* an.auto_forecast(steps, plot=False)
AutoForecast ==
    \E steps \in StepsArgs :
        /\ an' = auto_forecast(an, steps).a
        /\ last' = Outcome("auto_forecast", auto_forecast(an, steps), steps)
        /\ UNCHANGED <<req, lib, restA, restResp, cliDf, cliA, cliOut, df, anS, dfS, lastS,
                       dashDf, dashA, session, dashOut, proc, tab>>

\* an.evaluate_models()
EvaluateModels ==
    /\ an' = evaluate_models(an).a
    /\ last' = Outcome("evaluate_models", evaluate_models(an), None)
    /\ UNCHANGED <<req, lib, restA, restResp, cliDf, cliA, cliOut, df, anS, dfS, lastS,
                   dashDf, dashA, session, dashOut, proc, tab>>

\* an.check_stationarity()
CheckStationarity ==
    \E adf \in {"stationary", "non-stationary", "raises"} :
        /\ an' = check_stationarity(an, adf).a
        /\ last' = Outcome("check_stationarity", check_stationarity(an, adf), None)
        /\ UNCHANGED <<req, lib, restA, restResp, cliDf, cliA, cliOut, df, anS, dfS, lastS,
                       dashDf, dashA, session, dashOut, proc, tab>>

\* an.difference_series(plot=False)
DifferenceSeries ==
    /\ an' = difference_series(an).a
    /\ last' = Outcome("difference_series", difference_series(an), None)
    /\ UNCHANGED <<req, lib, restA, restResp, cliDf, cliA, cliOut, df, anS, dfS, lastS,
                   dashDf, dashA, session, dashOut, proc, tab>>

\* the library of a process that goes on to fit and forecast
UseLibs ==
    {[fit_ok |-> TRUE, level |-> MaxVal, slope |-> -1], [fit_ok |-> FALSE, level |-> 0, slope |-> 0]}

UseSources ==
    {CsvSource(TRUE, StandardFile(MinPoints, RisingTail)),
     ListSource(Records(MinPoints, <<"date", "value">>, SeriesDates(MinPoints, 1),
                        SeriesValues(MinPoints, RisingTail)))}

InitUse == lib \in UseLibs /\ Constructed

\* the methods of one analyzer called in any order
NextUse ==
    \/ LoadData(UseSources)
    \/ SelectColumn({"Austin, TX", "value"})
    \/ SplitData({<<1, 2>>, <<1, 1>>})
    \/ FitArima
    \/ FitAutoArima
    \/ Forecast
    \/ AutoForecast
    \/ EvaluateModels
    \/ CheckStationarity
    \/ DifferenceSeries

SpecUse == InitUse /\ [][NextUse]_vars

-----------------------------------------------------------------------------
(* The dashboard (app.py): every interaction reruns the whole script *)

\* the widgets with their default values
DefaultWidgets ==
    [use_sample |-> FALSE, file |-> None, column |-> Absent, model_type |-> "Auto", train_size |-> 80]

\* a script run in progress: the class variable _df, session_state.analyzer,
\* the session flags, the uncaught exception that stopped the run ("" if
\* none), the st.error messages, the widgets rendered and the metrics table
Run(d, a, s) ==
    [df |-> d, a |-> a, s |-> s, exc |-> "", errors |-> {}, shown |-> {"use_sample"},
     metrics |-> None]

\* lines 77-91: the sample-data branch; load_data is called outside any try
SampleSection(st, click) ==
    IF click # "generate_sample" THEN [st EXCEPT !.shown = @ \cup {"generate_sample"}]
    ELSE LET r == load_data(st.df, CsvSource(TRUE, SampleFile))
         IN  IF r.exc # ""
             THEN [st EXCEPT !.shown = @ \cup {"generate_sample"}, !.df = r.df, !.exc = r.exc]
             ELSE [st EXCEPT !.shown = @ \cup {"generate_sample"}, !.df = r.df,
                             !.a = IF st.a = None THEN NewAnalyzer ELSE st.a,
                             !.s.data_loaded = TRUE]

\* lines 92-112: the upload branch; it runs on every rerun while a file is
\* in the uploader, and reports a failed load with st.error
UploadSection(st, w) ==
    IF w.file = None THEN [st EXCEPT !.shown = @ \cup {"uploader"}]
    ELSE LET r == load_data(st.df, CsvSource(TRUE, w.file))
         IN  IF r.exc # ""
             THEN [st EXCEPT !.shown = @ \cup {"uploader"}, !.df = r.df,
                             !.errors = @ \cup {"Error loading file"}]
             ELSE [st EXCEPT !.shown = @ \cup {"uploader"}, !.df = r.df,
                             !.a = IF st.a = None THEN NewAnalyzer ELSE st.a,
                             !.s.data_loaded = TRUE]

\* line 127: the selectbox keeps its value while it is among the options
SelectedColumn(st, w) ==
    IF InSeq(w.column, st.df.columns) THEN w.column
    ELSE IF st.df.columns # <<>> THEN st.df.columns[1]
    ELSE Absent

\* lines 129-137: "Select Region"
SelectSection(st, w, click) ==
    IF click # "select_region" THEN [st EXCEPT !.shown = @ \cup {"column", "select_region"}]
    ELSE LET r == select_column(st.a, st.df, SelectedColumn(st, w))
         IN  IF r.exc # ""
             THEN [st EXCEPT !.shown = @ \cup {"column", "select_region"}, !.exc = r.exc]
             ELSE [st EXCEPT !.shown = @ \cup {"column", "select_region"}, !.a = r.a,
                             !.s = [@ EXCEPT !.column_selected = TRUE, !.model_fit = FALSE,
                                             !.auto_model_fit = FALSE,
                                             !.forecast_generated = FALSE,
                                             !.auto_forecast_generated = FALSE]]

\* lines 187-207: "Run Model"; only the automatic fit is inside a try
ModelSection(st, w, click) ==
    IF click # "run_model" THEN [st EXCEPT !.shown = @ \cup {"config", "run_model"}]
    ELSE LET split == split_data(st.a, <<w.train_size, 100>>)
             fit == IF w.model_type = "Manual" THEN fit_arima(split.a) ELSE fit_auto_arima(split.a)
         IN  IF split.exc # ""
             THEN [st EXCEPT !.shown = @ \cup {"config", "run_model"}, !.exc = split.exc]
             ELSE IF fit.exc # "" /\ w.model_type = "Manual"
             THEN [st EXCEPT !.shown = @ \cup {"config", "run_model"}, !.a = split.a,
                             !.exc = fit.exc]
             ELSE IF fit.exc # ""
             THEN [st EXCEPT !.shown = @ \cup {"config", "run_model"}, !.a = split.a,
                             !.errors = @ \cup {"Error fitting Auto ARIMA model"}]
             ELSE IF w.model_type = "Manual"
             THEN [st EXCEPT !.shown = @ \cup {"config", "run_model"}, !.a = fit.a,
                             !.s.model_fit = TRUE]
             ELSE [st EXCEPT !.shown = @ \cup {"config", "run_model"}, !.a = fit.a,
                             !.s.auto_model_fit = TRUE]

\* lines 257-275: "Generate Forecasts", each forecast inside its own try
ForecastSection(st, click) ==
    IF click # "generate_forecasts" THEN [st EXCEPT !.shown = @ \cup {"generate_forecasts"}]
    ELSE LET m == st.s.model_fit /\ forecast(st.a, None).exc = ""
             u == st.s.auto_model_fit /\ auto_forecast(st.a, None).exc = ""
         IN  [st EXCEPT !.shown = @ \cup {"generate_forecasts"},
                        !.s.forecast_generated = @ \/ m,
                        !.s.auto_forecast_generated = @ \/ u,
                        !.errors = @ \cup (IF st.s.model_fit /\ ~m
                                           THEN {"Error generating manual ARIMA forecasts"}
                                           ELSE {})
                                     \cup (IF st.s.auto_model_fit /\ ~u
                                           THEN {"Error generating Auto ARIMA forecasts"}
                                           ELSE {})]

\* lines 278-324: the forecasts are computed again for the plot, then
\* evaluate_models fills the metrics table; nothing here is inside a try
ResultsSection(st) ==
    IF st.s.forecast_generated /\ forecast(st.a, None).exc # ""
    THEN [st EXCEPT !.exc = forecast(st.a, None).exc]
    ELSE IF st.s.auto_forecast_generated /\ auto_forecast(st.a, None).exc # ""
    THEN [st EXCEPT !.exc = auto_forecast(st.a, None).exc]
    ELSE IF evaluate_models(st.a).exc # "" THEN [st EXCEPT !.exc = evaluate_models(st.a).exc]
    ELSE [st EXCEPT !.metrics = evaluate_models(st.a).ret]

\* the script goes on from the state st with the section Section, unless an
\* uncaught exception has stopped it
Then(st, Section(_)) == CHOOSE next \in {IF x.exc # "" THEN x ELSE Section(x) : x \in {st}} : TRUE

\* line 140
IfColumnSelected(st, w, click) ==
    IF st.s.column_selected THEN ModelSection(st, w, click) ELSE st

\* line 210
IfModelFit(st, click) ==
    IF st.s.model_fit \/ st.s.auto_model_fit THEN ForecastSection(st, click) ELSE st

\* lines 210 and 278
IfForecastGenerated(st) ==
    IF (st.s.model_fit \/ st.s.auto_model_fit)
       /\ (st.s.forecast_generated \/ st.s.auto_forecast_generated)
    THEN ResultsSection(st) ELSE st

\* lines 115-337
MainSection(st, w, click) ==
    IF ~(st.s.data_loaded /\ st.a # None) THEN [st EXCEPT !.shown = @ \cup {"instructions"}]
    ELSE Then(Then(Then(SelectSection(st, w, click),
                        LAMBDA x : IfColumnSelected(x, w, click)),
                   LAMBDA x : IfModelFit(x, click)),
              LAMBDA x : IfForecastGenerated(x))

\* lines 77-112
DataSection(st, w, click) ==
    IF w.use_sample THEN SampleSection(st, click) ELSE UploadSection(st, w)

\* one run of app.py from the widget values w and the button clicked
app_run(d, a, s, w, click) ==
    Then(Then(Run(d, a, s), LAMBDA x : DataSection(x, w, click)),
         LAMBDA x : MainSection(x, w, click))

\* the page after a run: the widgets that were not rendered lose their value
Page(st, w, click) ==
    [use_sample |-> w.use_sample,
     file |-> IF "uploader" \in st.shown THEN w.file ELSE None,
     column |-> IF "column" \in st.shown THEN SelectedColumn(st, w) ELSE Absent,
     model_type |-> IF "config" \in st.shown THEN w.model_type ELSE DefaultWidgets.model_type,
     train_size |-> IF "config" \in st.shown THEN w.train_size ELSE DefaultWidgets.train_size,
     click |-> click, shown |-> st.shown, exc |-> st.exc, errors |-> st.errors,
     metrics |-> st.metrics]

\* the widget values of a page
Widgets(page) ==
    [use_sample |-> page.use_sample, file |-> page.file, column |-> page.column,
     model_type |-> page.model_type, train_size |-> page.train_size]

\* the script runs and leaves its state and page behind
Rerun(w, click) ==
    \E st \in {app_run(dashDf, dashA, session, w, click)} :
        /\ dashDf' = st.df
        /\ dashA' = st.a
        /\ session' = st.s
        /\ dashOut' = Page(st, w, click)

\* what the estimator library answers during a dashboard session
DashLibs ==
    {[fit_ok |-> TRUE, level |-> MaxVal, slope |-> -1], [fit_ok |-> FALSE, level |-> 0, slope |-> 0]}

\* the files a user uploads: the long format the page asks for and the wide
\* format load_data reshapes
DashFiles ==
    {SampleFile,
     WideFile("RegionName", Months(2, MinPoints), <<"Austin, TX">>,
              <<SeriesValues(MinPoints, RisingTail)>>)}

\* a browser opens the page: the first run of the script
DashOpen ==
    /\ dashOut = None
    /\ lib' \in DashLibs
    /\ Rerun(DefaultWidgets, "none")
    /\ UNCHANGED <<req, restA, restResp, cliDf, cliA, cliOut, df, an, anS, last, dfS, lastS, proc, tab>>

\* the user ticks or unticks "Use sample data for testing"
DashUseSample ==
    /\ dashOut # None
    /\ Rerun([Widgets(dashOut) EXCEPT !.use_sample = ~@], "none")
    /\ UNCHANGED <<req, lib, restA, restResp, cliDf, cliA, cliOut, df, an, anS, last, dfS, lastS, proc, tab>>

\* the user puts a file into the uploader
DashUpload ==
    /\ dashOut # None
    /\ "uploader" \in dashOut.shown
    /\ \E f \in DashFiles : Rerun([Widgets(dashOut) EXCEPT !.file = f], "none")
    /\ UNCHANGED <<req, lib, restA, restResp, cliDf, cliA, cliOut, df, an, anS, last, dfS, lastS, proc, tab>>

\* the user picks a region in the selectbox
DashChooseColumn ==
    /\ dashOut # None
    /\ "column" \in dashOut.shown
    /\ \E i \in 1..Len(dashDf.columns) :
          Rerun([Widgets(dashOut) EXCEPT !.column = dashDf.columns[i]], "none")
    /\ UNCHANGED <<req, lib, restA, restResp, cliDf, cliA, cliOut, df, an, anS, last, dfS, lastS, proc, tab>>

\* the user changes the model type; the training-size slider stays at 80
DashConfigure ==
    /\ dashOut # None
    /\ "config" \in dashOut.shown
    /\ \E mt \in {"Auto", "Manual"} :
          Rerun([Widgets(dashOut) EXCEPT !.model_type = mt], "none")
    /\ UNCHANGED <<req, lib, restA, restResp, cliDf, cliA, cliOut, df, an, anS, last, dfS, lastS, proc, tab>>

\* the user clicks a button of the page
DashClick ==
    /\ dashOut # None
    /\ \E b \in dashOut.shown \cap {"generate_sample", "select_region", "run_model",
                                    "generate_forecasts"} :
          Rerun(Widgets(dashOut), b)
    /\ UNCHANGED <<req, lib, restA, restResp, cliDf, cliA, cliOut, df, an, anS, last, dfS, lastS, proc, tab>>

NextDash ==
    \/ DashOpen
    \/ DashUseSample
    \/ DashUpload
    \/ DashChooseColumn
    \/ DashConfigure
    \/ DashClick

SpecDash == Init /\ [][NextDash]_vars

-----------------------------------------------------------------------------
(* Properties of the dashboard *)

\* a table in the format the page asks for: a column of YYYY-MM-DD dates,
\* then numeric columns
C5_ExpectedFormat(t) ==
    /\ t # None
    /\ Len(t.columns) >= 2
    /\ t.columns[1] = "date"
    /\ t.dtype["date"] = "date_str"
    /\ \A i \in 1..Len(t.data["date"]) : ParsesAsDate(t.data["date"][i])
    /\ \A i \in 2..Len(t.columns) : t.dtype[t.columns[i]] = "int"

\* the data is loaded and the table's columns are the file's numeric columns
C5_Loaded(file) ==
    /\ session.data_loaded
    /\ dashDf # None
    /\ dashDf.columns = Tail(file.columns)

\* C5: after "Generate Sample Data", and after the upload of a CSV file with
\* a date column and numeric columns, data_loaded is true and the loaded
\* table's columns are the regions
C5_ExpectedFormatLoads ==
    /\ (dashOut # None /\ dashOut.click = "generate_sample") => C5_Loaded(SampleFile)
    /\ (dashOut # None /\ ~dashOut.use_sample /\ C5_ExpectedFormat(dashOut.file))
          => C5_Loaded(dashOut.file)

-----------------------------------------------------------------------------
(* Properties of the analyzer classes *)

\* C3: after load_data succeeds on any supported source the shared table is
\* indexed by dates, so every series select_column returns is date-indexed
C3_LoadedTableIsDateIndexed ==
    /\ (last # None /\ last.op = "load_data" /\ last.exc = "") => df.index.kind = "date"
    /\ (last # None /\ last.op = "select_column" /\ last.exc = "") => an.ts.index.kind = "date"

\* 0 < train_size < 1
C6_InRange(t) == 0 < t[1] /\ t[1] < t[2]

\* floor(n * train_size): the k with k <= n * train_size < k + 1
C6_Floor(n, t) == CHOOSE k \in 0..n : k * t[2] <= n * t[1] /\ n * t[1] < (k + 1) * t[2]

\* a holds the split of its series at floor(n * train_size)
C6_IsPartition(a, t) ==
    LET n == Len(a.ts.values)
        k == C6_Floor(n, t)
    IN  /\ a.ts_train.values = SubSeq(a.ts.values, 1, k)
        /\ a.ts_train.index.labels = SubSeq(a.ts.index.labels, 1, k)
        /\ a.ts_test.values = SubSeq(a.ts.values, k + 1, n)
        /\ a.ts_test.index.labels = SubSeq(a.ts.index.labels, k + 1, n)
        /\ a.ts_train.values \o a.ts_test.values = a.ts.values
        /\ a.ts_train.index.labels \o a.ts_test.index.labels = a.ts.index.labels

\* C6: for 0 < train_size < 1 split_data sets ts_train to the first
\* floor(n * train_size) points and ts_test to the rest, so that ts_train
\* followed by ts_test is the series; both classes compute the same windows
C6_SplitIsPartition ==
    /\ (last # None /\ last.op = "split_data" /\ last.exc = "" /\ C6_InRange(last.train_size))
          => C6_IsPartition(an, last.train_size)
    /\ (lastS # None /\ lastS.op = "split_data" /\ lastS.exc = "" /\ C6_InRange(lastS.train_size))
          => C6_IsPartition(anS, lastS.train_size)
    /\ (/\ last # None /\ last.op = "split_data" /\ last.exc = ""
        /\ lastS # None /\ lastS.op = "split_data" /\ lastS.exc = ""
        /\ last.train_size = lastS.train_size /\ C6_InRange(last.train_size)
        /\ an.ts = anS.ts)
          => (an.ts_train = anS.ts_train /\ an.ts_test = anS.ts_test)

\* both classes have split the same ten-point series at train_size 1/3:
\* three points to train on, seven to test on
C6_Witness ==
    /\ last # None /\ last.op = "split_data" /\ last.train_size = <<1, 3>>
    /\ lastS # None /\ lastS.op = "split_data" /\ lastS.train_size = <<1, 3>>
    /\ an.ts # None /\ an.ts = anS.ts
    /\ Len(an.ts.values) = 10
    /\ Len(an.ts_train.values) = 3
    /\ Len(anS.ts_test.values) = 7

\* the step is a call of the method op on an: every call records itself in last
C13_Called(op) == last' # None /\ last'.op = op

\* the call raised ValueError and changed no field of the instance
C13_Refused == last'.exc = "ValueError" /\ an' = an

C13_Step ==
    /\ (C13_Called("split_data") /\ an.ts = None) => C13_Refused
    /\ (C13_Called("check_stationarity") /\ an.ts_train = None) => C13_Refused
    /\ (C13_Called("difference_series") /\ an.ts_train = None) => C13_Refused
    /\ (C13_Called("fit_arima") /\ an.ts_train = None) => C13_Refused
    /\ (C13_Called("fit_auto_arima") /\ an.ts_train = None) => C13_Refused
    /\ (C13_Called("forecast") /\ (an.model_fit = None \/ an.ts_test = None)) => C13_Refused
    /\ (C13_Called("auto_forecast") /\ (an.auto_model = None \/ an.ts_test = None))
          => C13_Refused
    /\ (C13_Called("evaluate_models") /\ an.ts_test = None) => C13_Refused

\* C13: an operation invoked before its prerequisite raises ValueError and
\* changes none of ts, ts_train, ts_test, model_fit, auto_model: split_data
\* needs a selected series; check_stationarity, difference_series, fit_arima
\* and fit_auto_arima a split; forecast a fitted manual model and a split;
\* auto_forecast a fitted automatic model and a split; evaluate_models a split
C13_PrerequisitesAreChecked == [][C13_Step]_vars

\* forecast called after the split and before any fit was refused
C13_Witness ==
    /\ last # None
    /\ last.op = "forecast"
    /\ last.exc = "ValueError"
    /\ an.ts_test # None
    /\ an.model_fit = None

C14_Step ==
    C13_Called("select_column") =>
        IF df = None \/ ~(\E i \in 1..Len(df.columns) : df.columns[i] = last'.column)
        THEN last'.exc = "ValueError" /\ an' = an
        ELSE /\ last'.exc = ""
             /\ an'.ts.name = last'.column
             /\ an'.ts.values = df.data[last'.column]
             /\ an'.ts.index = df.index

\* C14: select_column raises ValueError when no data is loaded or the column
\* is not in the loaded table, and then leaves ts and every other field
\* unchanged; otherwise ts becomes that column of the shared table
C14_SelectColumnChecksItsColumn == [][C14_Step]_vars

\* a selection refused for an unknown column, with the series selected earlier
\* still in place
C14_Witness ==
    /\ last # None
    /\ last.op = "select_column"
    /\ last.exc = "ValueError"
    /\ df # None
    /\ an.ts # None
    /\ an.ts.name # last.column

\* C15: forecast() and auto_forecast() without steps return len(ts_test)
\* values, so evaluate_models never compares a forecast and a test window of
\* different lengths: it fails only without a split or on an empty window
C15_DefaultStepsCoverTestWindow ==
    /\ (last # None /\ last.op \in {"forecast", "auto_forecast"} /\ last.steps = None
          /\ last.exc = "") => Len(last.ret) = Len(an.ts_test.values)
    /\ (last # None /\ last.op = "evaluate_models" /\ last.exc # "")
          => (an.ts_test = None \/ Len(an.ts_test.values) = 0)

\* both models evaluated on a test window of five points
C15_Witness ==
    /\ last # None
    /\ last.op = "evaluate_models"
    /\ last.exc = ""
    /\ last.ret.manual # None
    /\ last.ret.auto # None
    /\ Len(an.ts_test.values) = 5

-----------------------------------------------------------------------------
(* The tabbed dashboard (streamlit_app.py main) *)

\* check_stationarity(): reports an error without a training window
st_check_stationarity(a, adf) ==
    IF a.ts_train = None THEN Returns(a, None)
    ELSE IF adf = "raises" \/ a.ts_train.dtype # "int" THEN Raises("LibraryError", a)
    ELSE Returns(a, [bool |-> adf = "stationary"])

\* difference_series(): the first difference of the training window
st_difference_series(a) ==
    IF a.ts_train = None THEN Returns(a, None)
    ELSE IF a.ts_train.dtype # "int" THEN Raises("TypeError", a)
    ELSE Returns(a, [values |-> Diff(a.ts_train.values)])

\* plot_acf_pacf(): plots the differenced training window
st_plot_acf_pacf(a) ==
    IF st_difference_series(a).ret = None THEN st_difference_series(a)
    ELSE Returns(a, Self)

\* fit_arima(order): a failure of the library is reported, not raised
st_fit_arima(a) ==
    IF a.ts_train = None THEN Returns(a, None)
    ELSE IF FitRaises(a.ts_train) THEN Returns(a, Self)
    ELSE Returns([a EXCEPT !.model_fit = FittedModel("manual", a.ts_train)], Self)

\* fit_auto_arima(seasonal, m)
st_fit_auto_arima(a) ==
    IF a.ts_train = None THEN Returns(a, None)
    ELSE IF FitRaises(a.ts_train) THEN Returns(a, Self)
    ELSE Returns([a EXCEPT !.auto_model = FittedModel("auto", a.ts_train)], Self)

\* plot_residuals()
st_plot_residuals(a) == IF a.model_fit = None THEN Returns(a, None) ELSE Returns(a, Self)

\* lines 329-357 and 421-449: the plot needs a date index of three points to
\* infer its frequency, and the metrics need a forecast as long as the test
\* window
StPlotRaises(a, table, n) ==
    IF table = None THEN ""
    ELSE IF a.ts.index.kind # "date" THEN "TypeError"
    ELSE IF Len(a.ts.index.labels) < 3 \/ n # Len(a.ts_test.values) THEN "ValueError"
    ELSE ""

\* what forecast and auto_forecast do with the model they are given
StPredict(a, table, model, steps, plot) ==
    IF model = None THEN Returns(a, None)
    ELSE IF a.ts_test = None THEN Returns(a, None)
    ELSE IF StepsOrTestLen(a, steps) < 1 THEN Raises("LibraryError", a)
    ELSE IF plot /\ StPlotRaises(a, table, StepsOrTestLen(a, steps)) # ""
    THEN Raises(StPlotRaises(a, table, StepsOrTestLen(a, steps)), a)
    ELSE Returns(a, [values |-> Predict(model, StepsOrTestLen(a, steps))])

\* forecast(steps, plot)
st_forecast(a, table, steps, plot) == StPredict(a, table, a.model_fit, steps, plot)

\* auto_forecast(steps, plot)
st_auto_forecast(a, table, steps, plot) == StPredict(a, table, a.auto_model, steps, plot)

\* evaluate_models(): the models that were compared
st_evaluate_models(a, table) ==
    IF a.ts_test = None THEN Returns(a, None)
    ELSE IF a.model_fit # None /\ st_forecast(a, table, None, FALSE).exc # ""
    THEN st_forecast(a, table, None, FALSE)
    ELSE IF a.auto_model # None /\ st_auto_forecast(a, table, None, FALSE).exc # ""
    THEN st_auto_forecast(a, table, None, FALSE)
    ELSE IF a.model_fit # None /\ a.auto_model # None
            /\ StPlotRaises(a, table, Len(a.ts_test.values)) # ""
    THEN Raises(StPlotRaises(a, table, Len(a.ts_test.values)), a)
    ELSE Returns(a, [manual |-> a.model_fit # None, auto |-> a.auto_model # None])

\* st.session_state of a new browser session: no attribute is set
TabSession ==
    [selected_column |-> Absent, data_split |-> FALSE, arima_fit |-> FALSE,
     auto_arima_fit |-> FALSE]

\* the widgets as a new page shows them
TabWidgets ==
    [file |-> None, column |-> Absent, train_size |-> <<4, 5>>, forecast_steps |-> None,
     auto_forecast_steps |-> None]

\* line 585: every run of the script starts with a new analyzer; the class
\* attribute _df and the session state are what the last run left
TabStart(d, s) ==
    [df |-> d, a |-> NewAnalyzer, s |-> s, exc |-> "", shown |-> {"uploader"}, errors |-> {},
     forecast |-> None]

\* the script carries on with the outcome r of a call on the analyzer; a
\* call that returns None has reported an error on the page
Did(st, op, r) ==
    [st EXCEPT !.a = r.a, !.exc = r.exc,
               !.errors = IF r.exc = "" /\ r.ret = None THEN @ \cup {op} ELSE @]

\* lines 595-602
TabLoad(st, w) ==
    IF w.file = None THEN st ELSE [st EXCEPT !.df = st_load_data(st.df, w.file).df]

\* lines 602-614
TabSelect(st, w, click) ==
    IF w.file = None \/ st.df = None THEN st
    ELSE IF click = "Select Column"
    THEN [Did(st, "select_column", st_select_column(st.a, st.df, SelectedColumn(st, w)))
             EXCEPT !.s.selected_column = SelectedColumn(st, w),
                    !.shown = @ \cup {"column", "Select Column"}]
    ELSE [st EXCEPT !.shown = @ \cup {"column", "Select Column"}]

\* lines 628-629
TabReselect(st) ==
    IF st.a.ts = None
    THEN Did(st, "select_column", st_select_column(st.a, st.df, st.s.selected_column))
    ELSE st

\* lines 636-640
TabSplit(st, w, click) ==
    IF click = "Split Data"
    THEN [Did(st, "split_data", st_split_data(st.a, w.train_size))
             EXCEPT !.s.data_split = TRUE, !.shown = @ \cup {"train_size", "Split Data"}]
    ELSE [st EXCEPT !.shown = @ \cup {"train_size", "Split Data"}]

\* lines 649-655
TabDifference(st, click) ==
    LET x == [st EXCEPT !.shown = @ \cup {"Apply Differencing", "Generate ACF and PACF Plots"}]
    IN  IF click = "Apply Differencing"
        THEN Did(x, "difference_series", st_difference_series(x.a))
        ELSE IF click = "Generate ACF and PACF Plots"
        THEN Did(x, "plot_acf_pacf", st_plot_acf_pacf(x.a))
        ELSE x

\* lines 643-655
TabStationarity(st, click, adf) ==
    IF ~st.s.data_split THEN st
    ELSE Then(Did(st, "check_stationarity", st_check_stationarity(st.a, adf)),
              LAMBDA x : TabDifference(x, click))

\* lines 619-655: the Data Exploration tab
TabExploration(st, w, click, adf) ==
    IF st.df = None \/ st.s.selected_column = Absent THEN st
    ELSE Then(Then(TabReselect(st), LAMBDA x : TabSplit(x, w, click)),
              LAMBDA x : TabStationarity(x, click, adf))

\* lines 669-671, 714-716 and 757-759
TabRestore(st) ==
    IF st.a.ts = None
    THEN Then(Did(st, "select_column", st_select_column(st.a, st.df, st.s.selected_column)),
              LAMBDA x : Did(x, "split_data", st_split_data(x.a, <<4, 5>>)))
    ELSE st

\* lines 684-686
TabFit(st, click) ==
    IF click = "Fit ARIMA Model"
    THEN [Did(st, "fit_arima", st_fit_arima(st.a))
             EXCEPT !.s.arima_fit = TRUE, !.shown = @ \cup {"Fit ARIMA Model"}]
    ELSE [st EXCEPT !.shown = @ \cup {"Fit ARIMA Model"}]

\* the script shows the forecast returned by the call r
Shows(st, op, r) ==
    [Did(st, op, r) EXCEPT !.forecast = IF r.exc = "" THEN r.ret ELSE @]

\* lines 689-700
TabForecast(st, w, click) ==
    IF ~st.s.arima_fit THEN st
    ELSE LET x == [st EXCEPT !.shown = @ \cup {"Analyze Residuals", "forecast_steps",
                                              "Generate Forecast"}]
         IN  IF click = "Analyze Residuals"
             THEN Did(x, "plot_residuals", st_plot_residuals(x.a))
             ELSE IF click = "Generate Forecast"
             THEN Shows(x, "forecast", st_forecast(x.a, x.df, w.forecast_steps, TRUE))
             ELSE x

\* lines 658-700: the ARIMA Modeling tab
TabArima(st, w, click) ==
    IF st.df = None \/ st.s.selected_column = Absent \/ ~st.s.data_split THEN st
    ELSE Then(Then(TabRestore(st), LAMBDA x : TabFit(x, click)),
              LAMBDA x : TabForecast(x, w, click))

\* lines 727-729
TabAutoFit(st, click) ==
    IF click = "Run Auto ARIMA"
    THEN [Did(st, "fit_auto_arima", st_fit_auto_arima(st.a))
             EXCEPT !.s.auto_arima_fit = TRUE, !.shown = @ \cup {"Run Auto ARIMA"}]
    ELSE [st EXCEPT !.shown = @ \cup {"Run Auto ARIMA"}]

\* lines 732-738
TabAutoForecast(st, w, click) ==
    IF ~st.s.auto_arima_fit THEN st
    ELSE LET x == [st EXCEPT !.shown = @ \cup {"auto_forecast_steps", "Generate Auto Forecast"}]
         IN  IF click = "Generate Auto Forecast"
             THEN Shows(x, "auto_forecast",
                        st_auto_forecast(x.a, x.df, w.auto_forecast_steps, TRUE))
             ELSE x

\* lines 703-738: the Auto ARIMA tab
TabAuto(st, w, click) ==
    IF st.df = None \/ st.s.selected_column = Absent \/ ~st.s.data_split THEN st
    ELSE Then(Then(TabRestore(st), LAMBDA x : TabAutoFit(x, click)),
              LAMBDA x : TabAutoForecast(x, w, click))

\* lines 763-764
TabEvaluate(st, click) ==
    IF click = "Evaluate Models"
    THEN [Did(st, "evaluate_models", st_evaluate_models(st.a, st.df))
             EXCEPT !.shown = @ \cup {"Evaluate Models"}]
    ELSE [st EXCEPT !.shown = @ \cup {"Evaluate Models"}]

\* lines 741-770: the Model Comparison tab
TabComparison(st, click) ==
    IF st.df = None \/ st.s.selected_column = Absent \/ ~st.s.data_split
       \/ ~(st.s.arima_fit \/ st.s.auto_arima_fit)
    THEN st
    ELSE Then(TabRestore(st), LAMBDA x : TabEvaluate(x, click))

\* one run of main() from the widget values w and the button clicked; adf is
\* what the stationarity test answers should it run
streamlit_main(d, s, w, click, adf) ==
    Then(Then(Then(Then(Then(TabLoad(TabStart(d, s), w),
                             LAMBDA x : TabSelect(x, w, click)),
                        LAMBDA x : TabExploration(x, w, click, adf)),
                   LAMBDA x : TabArima(x, w, click)),
              LAMBDA x : TabAuto(x, w, click)),
         LAMBDA x : TabComparison(x, click))

\* the page after a run: the widgets that were not rendered lose their
\* value; chosen is the slider's value at the last click on "Split Data"
TabPage(st, w, click, chosen) ==
    [df |-> st.df, a |-> st.a, s |-> st.s, exc |-> st.exc, shown |-> st.shown,
     errors |-> st.errors, forecast |-> st.forecast, click |-> click,
     chosen |-> IF click = "Split Data" THEN w.train_size ELSE chosen,
     w |-> [file |-> w.file,
            column |-> IF "column" \in st.shown THEN SelectedColumn(st, w) ELSE Absent,
            train_size |-> IF "train_size" \in st.shown THEN w.train_size
                           ELSE TabWidgets.train_size,
            forecast_steps |-> IF "forecast_steps" \in st.shown THEN w.forecast_steps
                               ELSE None,
            auto_forecast_steps |-> IF "auto_forecast_steps" \in st.shown
                                    THEN w.auto_forecast_steps ELSE None]]

\* the script runs and leaves its page behind
TabRerun(d, s, w, click, chosen) ==
    \E adf \in {"non-stationary", "raises"} :
        \E st \in {streamlit_main(d, s, w, click, adf)} :
            tab' = TabPage(st, w, click, chosen)

\* the files a user uploads: the long format of sample_data.py and the wide
\* format load_data reshapes
TabFiles == {CsvSource(TRUE, f) : f \in DashFiles}

TabSizes == {<<1, 2>>, <<4, 5>>}

TabButtons ==
    {"Select Column", "Split Data", "Apply Differencing", "Generate ACF and PACF Plots",
     "Fit ARIMA Model", "Analyze Residuals", "Generate Forecast", "Run Auto ARIMA",
     "Generate Auto Forecast", "Evaluate Models"}

\* a browser opens the page: the first run of the script
TabOpen ==
    /\ tab = None
    /\ lib' \in UseLibs
    /\ TabRerun(None, TabSession, TabWidgets, "none", None)
    /\ UNCHANGED <<req, restA, restResp, cliDf, cliA, cliOut, df, an, anS, last, dfS, lastS,
                   dashDf, dashA, session, dashOut, proc>>

\* the user puts a file into the uploader
TabUploadFile ==
    /\ tab # None
    /\ \E f \in TabFiles :
          TabRerun(tab.df, tab.s, [tab.w EXCEPT !.file = f], "none", tab.chosen)
    /\ UNCHANGED <<req, lib, restA, restResp, cliDf, cliA, cliOut, df, an, anS, last, dfS,
                   lastS, dashDf, dashA, session, dashOut, proc>>

\* the user picks a column in the selectbox
TabChooseColumn ==
    /\ tab # None
    /\ "column" \in tab.shown
    /\ \E i \in 1..Len(tab.df.columns) :
          TabRerun(tab.df, tab.s, [tab.w EXCEPT !.column = tab.df.columns[i]], "none",
                   tab.chosen)
    /\ UNCHANGED <<req, lib, restA, restResp, cliDf, cliA, cliOut, df, an, anS, last, dfS,
                   lastS, dashDf, dashA, session, dashOut, proc>>

\* the user moves the slider of the training proportion
TabSlide ==
    /\ tab # None
    /\ "train_size" \in tab.shown
    /\ \E t \in TabSizes :
          TabRerun(tab.df, tab.s, [tab.w EXCEPT !.train_size = t], "none", tab.chosen)
    /\ UNCHANGED <<req, lib, restA, restResp, cliDf, cliA, cliOut, df, an, anS, last, dfS,
                   lastS, dashDf, dashA, session, dashOut, proc>>

\* the user fills in or clears "Forecast Steps"
TabEnterSteps ==
    /\ tab # None
    /\ "forecast_steps" \in tab.shown
    /\ \E k \in {None, [int |-> MaxSteps]} :
          TabRerun(tab.df, tab.s, [tab.w EXCEPT !.forecast_steps = k], "none", tab.chosen)
    /\ UNCHANGED <<req, lib, restA, restResp, cliDf, cliA, cliOut, df, an, anS, last, dfS,
                   lastS, dashDf, dashA, session, dashOut, proc>>

\* the user fills in or clears "Auto Forecast Steps"
TabEnterAutoSteps ==
    /\ tab # None
    /\ "auto_forecast_steps" \in tab.shown
    /\ \E k \in {None, [int |-> MaxSteps]} :
          TabRerun(tab.df, tab.s, [tab.w EXCEPT !.auto_forecast_steps = k], "none",
                   tab.chosen)
    /\ UNCHANGED <<req, lib, restA, restResp, cliDf, cliA, cliOut, df, an, anS, last, dfS,
                   lastS, dashDf, dashA, session, dashOut, proc>>

\* the user clicks a button of the page
TabClick ==
    /\ tab # None
    /\ \E b \in tab.shown \cap TabButtons : TabRerun(tab.df, tab.s, tab.w, b, tab.chosen)
    /\ UNCHANGED <<req, lib, restA, restResp, cliDf, cliA, cliOut, df, an, anS, last, dfS,
                   lastS, dashDf, dashA, session, dashOut, proc>>

NextTab ==
    \/ TabOpen
    \/ TabUploadFile
    \/ TabChooseColumn
    \/ TabSlide
    \/ TabEnterSteps
    \/ TabEnterAutoSteps
    \/ TabClick

SpecTab == Init /\ [][NextTab]_vars

\* C17: in the tabbed dashboard, whenever data_split is set the analyzer of
\* that run holds the train and test windows of the split the user chose,
\* whenever arima_fit (auto_arima_fit) is set it holds a fitted manual
\* (automatic) model, and "Generate Forecast" after a fit shows a forecast
C17_FlagsDescribeAnalyzer ==
    (tab # None /\ tab.exc = "") =>
        /\ tab.s.data_split =>
              /\ tab.a.ts # None
              /\ tab.a.ts_train = StSplitTrain(tab.a.ts, tab.chosen)
              /\ tab.a.ts_test = StSplitTest(tab.a.ts, tab.chosen)
        /\ tab.s.arima_fit => tab.a.model_fit # None
        /\ tab.s.auto_arima_fit => tab.a.auto_model # None
        /\ tab.click = "Generate Forecast" => tab.forecast # None

====
